---- MODULE Spec2Model ----
(***************************************************************************)
(* Model of the livox-rs command multiplexer (LivoxClient::spawn_task_thread)*)
(* together with its producers (send_command callers, the heartbeat task   *)
(* and its interval), the client drop, Livox::handshake, set_sampling, and  *)
(* the control-frame codec as far as these depend on it.                    *)
(*                                                                          *)
(* A datagram is kept as the record of the fields ControlFrame::parse       *)
(* reads: its byte count, the SOF byte, the length byte, whether the two    *)
(* stored checksums equal the computed ones, cmd_type, seq_num, cmd_set,    *)
(* cmd_id and the first body byte (ret_code).                               *)
(*                                                                          *)
(* lib.rs matches on FrameData::Request / Response / Message while model.rs *)
(* builds the frame from the cmd_type byte 0 / 1 / 2; the model keeps the    *)
(* cmd_type of a parsed frame under the names lib.rs uses.                  *)
(***************************************************************************)
EXTENDS Integers, Sequences, FiniteSets, TLC

\* ---------------------------------------------------------------- bounds
\* Number of command tasks the producers submit during one run.
MaxTasks == 2

\* The concurrent callers of send_command.
Callers == {"c1", "c2"}

\* ------------------------------------------------------ program constants
InboxCapacity == 128
HEARTBEAT_PERIOD == 750
SeqModulus == 65536
SOF == 170
HeaderLen == 9
CrcLen == 4
MaxCmdId == 10
HandshakeSeq == 0
NearWrap == SeqModulus - 2

\* ------------------------------------------------------------ wire types
\* cmd_set / cmd_id of the request bodies used by the producers.
Heartbeat == [cmd_set |-> 0, cmd_id |-> 3, arg |-> 0]

StartStopSampling(sample_ctrl) == [cmd_set |-> 0, cmd_id |-> 4, arg |-> sample_ctrl]

SetMode(lidar_mode) == [cmd_set |-> 1, cmd_id |-> 0, arg |-> lidar_mode]

\* The request each caller submits.
CallerCommand(c) == IF c = "c1" THEN StartStopSampling(1) ELSE SetMode(1)

\* Bytes of the body of an acknowledge / message variant (sum of the field
\* BYTE_LENs of generate_full!'s second field list).
AckBodyLen(cmd_set, cmd_id) ==
    IF cmd_set = 0
    THEN CASE cmd_id = 0 -> 19
           [] cmd_id = 1 -> 1
           [] cmd_id = 2 -> 5
           [] cmd_id = 3 -> 7
           [] cmd_id = 7 -> 4
           [] cmd_id = 9 -> 14
           [] OTHER -> 1
    ELSE CASE cmd_id = 2 -> 25
           [] cmd_id = 5 -> 2
           [] cmd_id = 7 -> 5
           [] cmd_id = 9 -> 2
           [] OTHER -> 1

\* Bytes of the body of a command variant (first field list).
CmdBodyLen(cmd_set, cmd_id) ==
    IF cmd_set = 0
    THEN CASE cmd_id = 1 -> 10
           [] cmd_id = 4 -> 1
           [] cmd_id = 5 -> 1
           [] cmd_id = 8 -> 13
           [] cmd_id = 10 -> 2
           [] OTHER -> 0
    ELSE CASE cmd_id = 0 -> 1
           [] cmd_id = 1 -> 24
           [] cmd_id \in {3, 4, 6, 8} -> 1
           [] cmd_id = 10 -> 8
           [] OTHER -> 0

\* A well-formed datagram holding one frame of the given cmd_type.
Frame(cmd_type, seq, cmd_set, cmd_id, ret_code) ==
    LET body == IF cmd_type = 0 THEN CmdBodyLen(cmd_set, cmd_id)
                ELSE AckBodyLen(cmd_set, cmd_id)
        len == HeaderLen + 2 + body + CrcLen
    IN [size |-> len, sof |-> SOF, len |-> len, crc16_ok |-> TRUE,
        crc32_ok |-> TRUE, cmd_type |-> cmd_type, seq_num |-> seq,
        cmd_set |-> cmd_set, cmd_id |-> cmd_id, ret_code |-> ret_code]

\* Datagrams of each outcome class of the codec.
RespHeartbeat == Frame(1, 9, 0, 3, 0)

ReqFrame == Frame(0, 1, 0, 3, 0)

MsgFrame == Frame(2, 0, 0, 7, 0)

BadSof == [RespHeartbeat EXCEPT !.sof = 0]

UnknownSet == [RespHeartbeat EXCEPT !.cmd_set = 3]

UnknownId == [RespHeartbeat EXCEPT !.cmd_id = 11]

ShortDatagram == [RespHeartbeat EXCEPT !.size = 5]

\* The datagrams the command socket delivers to the worker in this model: one
\* per outcome of the worker's match on the parsed datagram.
Datagrams == {RespHeartbeat, ReqFrame, MsgFrame, BadSof, UnknownId}

\* ---------------------------------------------------------------- codec
Panic == [tag |-> "Panic"]

ParseErr(e) == [tag |-> "Err", err |-> e]

ParseOk(cmd_type, data) == [tag |-> "Ok", cmd_type |-> cmd_type, data |-> data]

CmdTypeName(b) == CASE b = 0 -> "Request" [] b = 1 -> "Response" [] OTHER -> "Message"

UnknownEnumId(cmd_id) == cmd_id > MaxCmdId

\* Command::parse / Acknowledge::parse on &frame[9 .. len - 4], and the
\* generated read_bytes on the bytes after cmd_set.
ParsePayload(d) ==
    IF d.len < HeaderLen + CrcLen + 1 THEN Panic
    ELSE IF d.cmd_set \in {0, 1}
    THEN IF d.len < HeaderLen + CrcLen + 2 THEN Panic
         ELSE IF UnknownEnumId(d.cmd_id) THEN Panic
         ELSE IF d.len - (HeaderLen + CrcLen + 2) <
                    (IF d.cmd_type = 0 THEN CmdBodyLen(d.cmd_set, d.cmd_id)
                     ELSE AckBodyLen(d.cmd_set, d.cmd_id))
         THEN Panic
         ELSE ParseOk(CmdTypeName(d.cmd_type),
                      [cmd_set |-> d.cmd_set, cmd_id |-> d.cmd_id, arg |-> d.ret_code])
    ELSE IF d.cmd_set = 2
    THEN ParseOk(CmdTypeName(d.cmd_type), [cmd_set |-> 2, cmd_id |-> 0, arg |-> 0])
    ELSE ParseErr("InvalidCommandType")

\* ControlFrame::parse.
parse(d) ==
    IF d.size = 0 THEN Panic
    ELSE IF d.sof # SOF THEN ParseErr("InvalidSOF")
    ELSE IF d.size < HeaderLen THEN Panic
    ELSE IF ~d.crc16_ok THEN ParseErr("InvalidCrc16")
    ELSE IF d.len < CrcLen \/ d.len > d.size THEN Panic
    ELSE IF ~d.crc32_ok THEN ParseErr("InvalidCrc32")
    ELSE IF d.cmd_type \in {0, 1, 2} THEN ParsePayload(d)
    ELSE ParseErr("InvalidCommandType")

\* ------------------------------------------------------------- results
\* A LivoxResult: its variant and, as a record, what the variant carries.
Ok(ack) == [kind |-> "Ok", data |-> ack]

IoError(reason) == [kind |-> "IoError", data |-> [reason |-> reason]]

ParseError(e) == [kind |-> "ParseError", data |-> [err |-> e]]

BadResponse(data) == [kind |-> "BadResponse", data |-> data]

AsyncChannelError ==
    [kind |-> "AsyncChannelError", data |-> [reason |-> "While sending command"]]

AsyncCallbackError ==
    [kind |-> "AsyncCallbackError",
     data |-> [reason |-> "While waiting for command response"]]


\* ----------------------------------------------------------------- state
VARIABLES
    client,      \* "alive" | "dropped": the LivoxClient (task_channel, heartbeat_stop)
    inbox,       \* mpsc queue of task ids, oldest first
    tasks,       \* every AsyncCommandTask accepted so far, in acceptance order
    slots,       \* per task: the receiving half of its oneshot and what it yielded
    posts,       \* every call of the worker's callback closure, in order
    wire,        \* what happened on command_socket: frames sent, datagrams received
    w_pc,        \* worker: "idle" | "send" | "recv" | "exited" | "panicked"
    w_task,      \* id of the task the worker holds (0: none)
    seq_num,     \* the worker's local seq_num
    frame,       \* the ControlFrame the worker built for w_task
    n_dequeued,  \* tasks dequeued by the worker since it was spawned
    c_pc,        \* per caller: "ready" | "waiting"
    c_ret,       \* per caller: what its last call of send_command returned
    c_task,      \* per caller: id of the task it awaits
    h_pc,        \* heartbeat task: "start" | "select" | "waiting" | "exited" | "panicked"
    h_task,      \* id of the heartbeat task's pending request
    tick_due,    \* the heartbeat's interval has a tick ready that was not taken yet
    at_drop,     \* the tasks accepted and without a posted result when the client was dropped
    elapsed,     \* heartbeat periods of wall-clock time that went by since the drop
    hs_pc,       \* Livox::handshake: "none" | "bind" | "send" | "recv" | "returned" | "panicked"
    hs_reply,    \* the datagram handshake received
    hs_result,   \* what handshake returned
    lidar,       \* the Livox device record handshake was called on
    ss_pc,       \* set_sampling: "none" | "called" | "returned"
    ss_start,    \* its argument
    ss_cmd,      \* the request it passed to send_command
    ss_ack,      \* what send_command returned to it
    ss_out,      \* what it returned
    wf_pc,       \* wait_for_one: "none" | "bind" | "recv" | "returned" | "panicked"
    wf_dgram,    \* the datagram it received
    wf_from,     \* the address that datagram came from
    wf_out,      \* what it returned
    cx_pc,       \* codec: "none" | "frame" | "bytes" | "changed" | "forged" |
                 \* "cut" | "parsed" | "panicked"
    cx_frame,    \* the ControlFrame handed to serialize (NoFrame: the bytes are
                 \* no serialization of a frame)
    cx_bytes,    \* the bytes handed to parse
    cx_pos,      \* index of the byte changed in transit (0: none)
    cx_out,      \* what parse returned
    pc_pc,       \* data stream: "none" | "recv" | "ended" | "panicked";
                 \* PointCloudFrame::parse alone: "input" | "parsed"
    pc_dgram,    \* the datagram the data socket delivered last
    pc_items,    \* the items the stream has yielded, in order
    pc_frame     \* what PointCloudFrame::parse returned

hs_vars == <<hs_pc, hs_reply, hs_result, lidar>>

ss_vars == <<ss_pc, ss_start, ss_cmd, ss_ack, ss_out>>

wf_vars == <<wf_pc, wf_dgram, wf_from, wf_out>>

cx_vars == <<cx_pc, cx_frame, cx_bytes, cx_pos, cx_out>>

pc_vars == <<pc_pc, pc_dgram, pc_items, pc_frame>>

vars == <<client, inbox, tasks, slots, posts, wire, w_pc, w_task, seq_num,
          frame, n_dequeued, c_pc, c_task, h_pc, h_task, tick_due, at_drop,
          elapsed, hs_vars, ss_vars, c_ret, wf_vars, cx_vars, pc_vars>>

NoFrame == [version |-> 0, data |-> Heartbeat, seq_num |-> 0]

\* Stands in the socket log where an entry holds no datagram.
NoDatagram == [Frame(0, 0, 0, 0, 0) EXCEPT !.size = 0, !.len = 0]

\* The Livox device records (broadcast code) handshake is called on.
Devices == {"lidar_a", "lidar_b"}

NoResult == [kind |-> "none", data |-> [reason |-> "none"]]

\* The Response frame Handshake { ret_code: 0 }.
RespHandshake == Frame(1, 0, 0, 1, 0)

\* handshake has returned Ok(LivoxClient { lidar, .. }).
HandshakeDone ==
    /\ hs_pc = "returned"
    /\ hs_reply = RespHandshake
    /\ lidar = "lidar_a"
    /\ hs_result = [kind |-> "Ok", data |-> [device |-> lidar]]

\* No call of set_sampling is under way.
SetSamplingIdle ==
    /\ ss_pc = "none"
    /\ ss_start = FALSE
    /\ ss_cmd = Heartbeat
    /\ ss_ack = NoResult
    /\ ss_out = NoResult

\* wait_for_one is not running (it returned the device before the handshake).
DiscoveryIdle ==
    /\ wf_pc = "none"
    /\ wf_dgram = NoDatagram
    /\ wf_from = "none"
    /\ wf_out = NoResult

\* No frame is being serialized or parsed outside the worker.
CodecIdle ==
    /\ cx_pc = "none"
    /\ cx_frame = NoFrame
    /\ cx_bytes = <<>>
    /\ cx_pos = 0
    /\ cx_out = Panic

\* No point-cloud stream has been created.
StreamIdle ==
    /\ pc_pc = "none"
    /\ pc_dgram = <<>>
    /\ pc_items = <<>>
    /\ pc_frame = Panic

\* The client and its two tasks right after Livox::handshake returned
\* Ok(LivoxClient).
FreshClient ==
    /\ client = "alive"
    /\ inbox = <<>>
    /\ tasks = <<>>
    /\ slots = <<>>
    /\ posts = <<>>
    /\ wire = <<>>
    /\ w_pc = "idle"
    /\ w_task = 0
    /\ seq_num = 0
    /\ frame = NoFrame
    /\ n_dequeued = 0
    /\ c_pc = [c \in Callers |-> "ready"]
    /\ c_task = [c \in Callers |-> 0]
    /\ c_ret = [c \in Callers |-> NoResult]
    /\ h_pc = "start"
    /\ h_task = 0
    /\ tick_due = FALSE
    /\ at_drop = {}
    /\ elapsed = 0
    /\ HandshakeDone
    /\ SetSamplingIdle
    /\ DiscoveryIdle
    /\ CodecIdle

\* State right after Livox::handshake returned Ok(LivoxClient).
Init == FreshClient /\ StreamIdle

\* The same client after its worker has served NearWrap tasks, every caller
\* having received its result.
InitWrap ==
    /\ client = "alive"
    /\ inbox = <<>>
    /\ tasks = <<>>
    /\ slots = <<>>
    /\ posts = <<>>
    /\ wire = <<>>
    /\ w_pc = "idle"
    /\ w_task = 0
    /\ seq_num = NearWrap
    /\ frame = NoFrame
    /\ n_dequeued = NearWrap
    /\ c_pc = [c \in Callers |-> "ready"]
    /\ c_task = [c \in Callers |-> 0]
    /\ c_ret = [c \in Callers |-> NoResult]
    /\ h_pc = "select"
    /\ h_task = 0
    /\ tick_due = FALSE
    /\ at_drop = {}
    /\ elapsed = 0
    /\ HandshakeDone
    /\ SetSamplingIdle
    /\ DiscoveryIdle
    /\ CodecIdle
    /\ StreamIdle

\* ------------------------------------------------------------- helpers
WorkerDead == w_pc \in {"exited", "panicked"}

HeartbeatDead == h_pc \in {"exited", "panicked"}

\* Every mpsc::Sender (the client's task_channel, the heartbeat's clone) is gone.
AllSendersDropped == client = "dropped" /\ HeartbeatDead

Posted(k) == \E i \in 1..Len(posts) : posts[i].id = k

PostOf(k) == posts[CHOOSE i \in 1..Len(posts) : posts[i].id = k]

\* Faulty variant of CallbackDropped: the receiving half never learns that
\* its sender is gone.
CallbackDropNotSeen(k) == FALSE

\* The oneshot::Sender of task k was dropped without a value: the worker is
\* gone and never called the callback of k.
CallbackDropped(k) == WorkerDead /\ ~Posted(k)

\* mpsc::Sender::send: queue the task at the back.
InboxPush(q, k) == Append(q, k)

\* Faulty variant of InboxPick: the newest task is served first.
InboxPickNewest(q) == Len(q)

\* mpsc::Receiver::recv: the position in the queue of the task it yields.
InboxPick(q) == 1

InboxNext(q) == q[InboxPick(q)]

InboxRest(q) == SubSeq(q, 1, InboxPick(q) - 1) \o SubSeq(q, InboxPick(q) + 1, Len(q))

\* An entry of the socket log.
WireEvent(ev, d) ==
    [ev |-> ev, id |-> IF ev = "recv" THEN 0 ELSE w_task, nth |-> n_dequeued,
     seq_num |-> IF ev = "recv" THEN d.seq_num ELSE frame.seq_num, dgram |-> d]

\* Faulty variant of SeqIncrement: the counter is never advanced.
SeqStuck(s) == s

\* seq_num += 1 on a u16 (release profile: wrapping).
SeqIncrement(s) == (s + 1) % SeqModulus

SeqOverflows(s) == s + 1 >= SeqModulus

\* Faulty variant of Callback: an error result is dropped instead of posted.
CallbackOkOnly(k, result) ==
    IF result.kind = "Ok"
    THEN Append(posts, [id |-> k, result |-> result, delivered |-> slots[k].rx = "waiting"])
    ELSE posts

\* The callback closure: callback.send(result); an Err (receiver dropped) is logged.
Callback(k, result) ==
    Append(posts, [id |-> k, result |-> result, delivered |-> slots[k].rx = "waiting"])

\* The match on ControlFrame::parse(..).map_err(ParseError) in the worker.
ResultOf(frm, d) ==
    LET p == parse(d)
    IN IF p.tag = "Ok" /\ p.cmd_type = "Response" THEN Ok(p.data)
       ELSE IF p.tag = "Ok" THEN BadResponse(frm.data)
       ELSE ParseError(p.err)

\* Faulty variant of AfterSend: the worker takes the next task without
\* waiting for the reply.
AfterSendNoWait == "idle"

\* Where the worker goes after a successful command_socket.send.
AfterSend == "recv"

\* Faulty variant of AfterCallback: callback.send(result).unwrap().
AfterCallbackUnwrap(delivered) == IF delivered THEN "idle" ELSE "panicked"

\* Where the worker goes after the callback closure ran (continue / end of
\* the loop body), whether or not callback.send delivered.
AfterCallback(delivered) == "idle"

\* The tasks other producers had queued before the run began: the run is
\* bounded by the tasks submitted during it.
Backlog == InboxCapacity - 1

Preloaded == IF Len(tasks) >= Backlog THEN Backlog ELSE 0

\* Faulty variant of Submit: an unbounded channel, the task is queued
\* whatever the inbox holds.
SubmitUnbounded(command, owner) ==
    /\ Len(tasks) - Preloaded < MaxTasks
    /\ ~WorkerDead
    /\ tasks' = Append(tasks, [command |-> command, owner |-> owner])
    /\ slots' = Append(slots, [rx |-> "waiting", got |-> <<>>])
    /\ inbox' = InboxPush(inbox, Len(tasks) + 1)

\* send_command_to_channel up to its first suspension: channel.send(task).await.
\* The task is accepted, or the receiver is gone and the call fails.
Submit(command, owner) ==
    /\ Len(tasks) - Preloaded < MaxTasks
    /\ ~WorkerDead
    /\ Len(inbox) < InboxCapacity
    /\ tasks' = Append(tasks, [command |-> command, owner |-> owner])
    /\ slots' = Append(slots, [rx |-> "waiting", got |-> <<>>])
    /\ inbox' = InboxPush(inbox, Len(tasks) + 1)

\* What task.await yields for task k, once it is ready.
SlotReady(k) == Posted(k) \/ CallbackDropped(k)

SlotValue(k) == IF Posted(k) THEN PostOf(k).result ELSE AsyncCallbackError

\* ------------------------------------------------------------- callers
\* LivoxClient::send_command: the task is accepted by the inbox.
SendCommand(c) ==
    /\ client = "alive"
    /\ c_pc[c] = "ready"
    /\ Submit(CallerCommand(c), c)
    /\ c_pc' = [c_pc EXCEPT ![c] = "waiting"]
    /\ c_task' = [c_task EXCEPT ![c] = Len(tasks) + 1]
    /\ UNCHANGED <<client, posts, wire, w_pc, w_task, seq_num, frame, n_dequeued,
                   h_pc, h_task,
                   tick_due, at_drop, elapsed, hs_vars, ss_vars, c_ret,
                   wf_vars, cx_vars, pc_vars>>

\* LivoxClient::send_command when the worker's receiver is gone: channel.send
\* gives the task back in a SendError and `?` returns AsyncChannelError.
SendCommandFails(c) ==
    /\ client = "alive"
    /\ c_pc[c] = "ready"
    /\ WorkerDead
    /\ c_ret' = [c_ret EXCEPT ![c] = AsyncChannelError]
    /\ UNCHANGED <<client, inbox, tasks, slots, posts, wire, w_pc, w_task, seq_num,
                   frame, n_dequeued, c_pc, c_task, h_pc, h_task,
                   tick_due, at_drop, elapsed, hs_vars, ss_vars,
                   wf_vars, cx_vars, pc_vars>>

\* send_command returns what the completion slot yields.
CallerReceive(c) ==
    /\ c_pc[c] = "waiting"
    /\ SlotReady(c_task[c])
    /\ slots' = [slots EXCEPT ![c_task[c]] =
                    [rx |-> "done", got |-> <<SlotValue(c_task[c])>>]]
    /\ c_pc' = [c_pc EXCEPT ![c] = "ready"]
    /\ c_ret' = [c_ret EXCEPT ![c] = SlotValue(c_task[c])]
    /\ UNCHANGED <<client, inbox, tasks, posts, wire, w_pc, w_task, seq_num, frame,
                   n_dequeued, c_task, h_pc, h_task,
                   tick_due, at_drop, elapsed, hs_vars, ss_vars,
                   wf_vars, cx_vars, pc_vars>>

\* Faulty variant of CallerCancel: dropping the future takes the task back
\* out of the inbox when the worker has not dequeued it yet.
CallerCancelWithdraws(c) ==
    /\ c_pc[c] = "waiting"
    /\ slots' = [slots EXCEPT ![c_task[c]].rx = "dropped"]
    /\ inbox' = SelectSeq(inbox, LAMBDA k : k # c_task[c])
    /\ c_pc' = [c_pc EXCEPT ![c] = "ready"]
    /\ UNCHANGED <<client, tasks, posts, wire, w_pc, w_task, seq_num, frame,
                   n_dequeued, c_task, h_pc, h_task,
                   tick_due, at_drop, elapsed, hs_vars, ss_vars, c_ret,
                   wf_vars, cx_vars, pc_vars>>

\* The caller drops the send_command future while it awaits the slot.
CallerCancel(c) ==
    /\ c_pc[c] = "waiting"
    /\ slots' = [slots EXCEPT ![c_task[c]].rx = "dropped"]
    /\ c_pc' = [c_pc EXCEPT ![c] = "ready"]
    /\ UNCHANGED <<client, inbox, tasks, posts, wire, w_pc, w_task, seq_num, frame,
                   n_dequeued, c_task, h_pc, h_task,
                   tick_due, at_drop, elapsed, hs_vars, ss_vars, c_ret,
                   wf_vars, cx_vars, pc_vars>>

\* Faulty variant of DropClient: the drop aborts the worker task, the inbox
\* and the callbacks it holds are dropped with it.
DropClientAborts ==
    /\ client = "alive"
    /\ \A c \in Callers : c_pc[c] = "ready"
    /\ client' = "dropped"
    /\ at_drop' = {k \in 1..Len(tasks) : ~Posted(k)}
    /\ w_pc' = "exited"
    /\ inbox' = <<>>
    /\ UNCHANGED <<tasks, slots, posts, wire, w_task, seq_num, frame,
                   n_dequeued, c_pc, c_task, h_pc, h_task,
                   tick_due, elapsed, hs_vars, ss_vars, c_ret,
                   wf_vars, cx_vars, pc_vars>>

\* The LivoxClient is dropped: task_channel and heartbeat_stop go, the two
\* JoinHandles are dropped (the tasks keep running detached).  send_command
\* borrows the client, so no call is pending.
DropClient ==
    /\ client = "alive"
    /\ \A c \in Callers : c_pc[c] = "ready"
    /\ client' = "dropped"
    /\ at_drop' = {k \in 1..Len(tasks) : ~Posted(k)}
    /\ UNCHANGED <<inbox, tasks, slots, posts, wire, w_pc, w_task, seq_num, frame,
                   n_dequeued, c_pc, c_task, h_pc, h_task,
                   tick_due, elapsed, hs_vars, ss_vars, c_ret,
                   wf_vars, cx_vars, pc_vars>>

\* ----------------------------------------------------------- heartbeat
\* Faulty variant of HeartbeatStart: the first tick of the interval, which
\* completes at once, is not taken before the loop.
HeartbeatStartKeepsTick ==
    /\ h_pc = "start"
    /\ h_pc' = "select"
    /\ tick_due' = TRUE
    /\ UNCHANGED <<client, inbox, tasks, slots, posts, wire, w_pc, w_task, seq_num,
                   frame, n_dequeued, c_pc, c_task, h_task,
                   at_drop, elapsed, hs_vars, ss_vars, c_ret,
                   wf_vars, cx_vars, pc_vars>>

\* The spawned task starts: interval(HEARTBEAT_PERIOD) is created and its
\* first tick, which completes at once, is taken as start_time.
HeartbeatStart ==
    /\ h_pc = "start"
    /\ h_pc' = "select"
    /\ UNCHANGED <<client, inbox, tasks, slots, posts, wire, w_pc, w_task, seq_num,
                   frame, n_dequeued, c_pc, c_task, h_task,
                   tick_due, at_drop, elapsed, hs_vars, ss_vars, c_ret,
                   wf_vars, cx_vars, pc_vars>>

\* The interval has a tick ready when the task polls it in select!: a period
\* went by since the last tick, the time it awaited a reply included.
TimerFires ==
    /\ h_pc = "select"
    /\ ~tick_due
    /\ tick_due' = TRUE
    /\ UNCHANGED <<client, inbox, tasks, slots, posts, wire, w_pc, w_task, seq_num,
                   frame, n_dequeued, c_pc, c_task, h_pc, h_task,
                   at_drop, elapsed, hs_vars, ss_vars, c_ret,
                   wf_vars, cx_vars, pc_vars>>

\* Faulty variant of HeartbeatTick: the request is submitted but its result
\* is not awaited in the branch; the task goes back to select! at once.
HeartbeatTickNoAwait ==
    /\ h_pc = "select"
    /\ tick_due
    /\ tick_due' = FALSE
    /\ Submit(Heartbeat, "heartbeat")
    /\ h_pc' = "select"
    /\ h_task' = Len(tasks) + 1
    /\ UNCHANGED <<client, posts, wire, w_pc, w_task, seq_num, frame, n_dequeued,
                   c_pc, c_task,
                   at_drop, elapsed, hs_vars, ss_vars, c_ret,
                   wf_vars, cx_vars, pc_vars>>

\* select!: interval.tick() is taken; the Heartbeat request is accepted by the inbox.
HeartbeatTick ==
    /\ h_pc = "select"
    /\ tick_due
    /\ tick_due' = FALSE
    /\ Submit(Heartbeat, "heartbeat")
    /\ h_pc' = "waiting"
    /\ h_task' = Len(tasks) + 1
    /\ UNCHANGED <<client, posts, wire, w_pc, w_task, seq_num, frame, n_dequeued,
                   c_pc, c_task,
                   at_drop, elapsed, hs_vars, ss_vars, c_ret,
                   wf_vars, cx_vars, pc_vars>>

\* select!: interval.tick() is taken but the worker is gone: channel.send fails
\* and the unwrap() of the result panics.
HeartbeatSendFails ==
    /\ h_pc = "select"
    /\ tick_due
    /\ tick_due' = FALSE
    /\ WorkerDead
    /\ h_pc' = "panicked"
    /\ UNCHANGED <<client, inbox, tasks, slots, posts, wire, w_pc, w_task, seq_num,
                   frame, n_dequeued, c_pc, c_task, h_task,
                   at_drop, elapsed, hs_vars, ss_vars, c_ret,
                   wf_vars, cx_vars, pc_vars>>

\* Where the heartbeat task goes with the result of its request:
\* .await.unwrap() panics on Err; an Ok is matched, logged, and the loop goes on.
AfterHeartbeat(result) == IF result.kind = "Ok" THEN "select" ELSE "panicked"

\* The heartbeat's send_command_to_channel returns.
HeartbeatReceive ==
    /\ h_pc = "waiting"
    /\ SlotReady(h_task)
    /\ slots' = [slots EXCEPT ![h_task] = [rx |-> "done", got |-> <<SlotValue(h_task)>>]]
    /\ h_pc' = AfterHeartbeat(SlotValue(h_task))
    /\ tick_due' = (tick_due /\ AfterHeartbeat(SlotValue(h_task)) = "select")
    /\ UNCHANGED <<client, inbox, tasks, posts, wire, w_pc, w_task, seq_num, frame,
                   n_dequeued, c_pc, c_task, h_task,
                   at_drop, elapsed, hs_vars, ss_vars, c_ret,
                   wf_vars, cx_vars, pc_vars>>

\* Faulty variant of HeartbeatStop: the cancel branch submits a last
\* heartbeat before it breaks.
HeartbeatStopLastBeat ==
    /\ h_pc = "select"
    /\ client = "dropped"
    /\ Submit(Heartbeat, "heartbeat")
    /\ h_pc' = "exited"
    /\ UNCHANGED <<client, posts, wire, w_pc, w_task, seq_num, frame, n_dequeued,
                   c_pc, c_task, h_task,
                   tick_due, at_drop, elapsed, hs_vars, ss_vars, c_ret,
                   wf_vars, cx_vars, pc_vars>>

\* Faulty variant of HeartbeatStop: the cancel branch does not break, the
\* task takes the next tick instead.
HeartbeatStopContinues ==
    /\ h_pc = "select"
    /\ client = "dropped"
    /\ tick_due' = TRUE
    /\ UNCHANGED <<client, inbox, tasks, slots, posts, wire, w_pc, w_task, seq_num,
                   frame, n_dequeued, c_pc, c_task, h_pc, h_task,
                   at_drop, elapsed, hs_vars, ss_vars, c_ret,
                   wf_vars, cx_vars, pc_vars>>

\* select!: stop_signal resolved (heartbeat_stop was dropped with the client).
HeartbeatStop ==
    /\ h_pc = "select"
    /\ client = "dropped"
    /\ h_pc' = "exited"
    /\ UNCHANGED <<client, inbox, tasks, slots, posts, wire, w_pc, w_task, seq_num,
                   frame, n_dequeued, c_pc, c_task, h_task,
                   tick_due, at_drop, elapsed, hs_vars, ss_vars, c_ret,
                   wf_vars, cx_vars, pc_vars>>

\* -------------------------------------------------------------- worker
\* Faulty variant of WorkerRecvTask: seq_num is advanced only when the
\* exchange of the previous task ended with Ok.
WorkerRecvTaskSeqOnSuccess ==
    /\ w_pc = "idle"
    /\ inbox # <<>>
    /\ w_task' = InboxNext(inbox)
    /\ inbox' = InboxRest(inbox)
    /\ LET s == IF posts = <<>> \/ posts[Len(posts)].result.kind = "Ok"
                THEN SeqIncrement(seq_num) ELSE seq_num
       IN /\ seq_num' = s
          /\ frame' = [version |-> 1, data |-> tasks[InboxNext(inbox)].command,
                       seq_num |-> s]
    /\ n_dequeued' = n_dequeued + 1
    /\ w_pc' = "send"
    /\ UNCHANGED <<client, tasks, slots, posts, wire, c_pc, c_task, h_pc, h_task,
                   tick_due, at_drop, elapsed, hs_vars, ss_vars, c_ret,
                   wf_vars, cx_vars, pc_vars>>

\* task_receiver.recv() yields a task; seq_num += 1; the frame is built.
WorkerRecvTask ==
    /\ w_pc = "idle"
    /\ inbox # <<>>
    /\ w_task' = InboxNext(inbox)
    /\ inbox' = InboxRest(inbox)
    /\ seq_num' = SeqIncrement(seq_num)
    /\ n_dequeued' = n_dequeued + 1
    /\ frame' = [version |-> 1, data |-> tasks[InboxNext(inbox)].command,
                 seq_num |-> SeqIncrement(seq_num)]
    /\ w_pc' = "send"
    /\ UNCHANGED <<client, tasks, slots, posts, wire, c_pc, c_task, h_pc, h_task,
                   tick_due, at_drop, elapsed, hs_vars, ss_vars, c_ret,
                   wf_vars, cx_vars, pc_vars>>

\* The same step in a build with overflow checks (debug profile): seq_num += 1
\* panics at 65535, the task and the receiver are dropped.
WorkerOverflowPanic ==
    /\ w_pc = "idle"
    /\ inbox # <<>>
    /\ SeqOverflows(seq_num)
    /\ w_task' = InboxNext(inbox)
    /\ inbox' = <<>>
    /\ n_dequeued' = n_dequeued + 1
    /\ w_pc' = "panicked"
    /\ UNCHANGED <<client, tasks, slots, posts, wire, seq_num, frame, c_pc, c_task,
                   h_pc, h_task,
                   tick_due, at_drop, elapsed, hs_vars, ss_vars, c_ret,
                   wf_vars, cx_vars, pc_vars>>

\* command_socket.send(frame.serialize()) succeeds.
WorkerSend ==
    /\ w_pc = "send"
    /\ wire' = Append(wire, WireEvent("send", NoDatagram))
    /\ w_pc' = AfterSend
    /\ UNCHANGED <<client, inbox, tasks, slots, posts, w_task, seq_num, frame,
                   n_dequeued, c_pc, c_task, h_pc, h_task,
                   tick_due, at_drop, elapsed, hs_vars, ss_vars, c_ret,
                   wf_vars, cx_vars, pc_vars>>

\* command_socket.send fails: callback(Err(IoError)); continue.
WorkerSendFails ==
    /\ w_pc = "send"
    /\ wire' = Append(wire, WireEvent("send_fail", NoDatagram))
    /\ posts' = Callback(w_task, IoError("While sending command"))
    /\ w_pc' = AfterCallback(slots[w_task].rx = "waiting")
    /\ UNCHANGED <<client, inbox, tasks, slots, w_task, seq_num, frame,
                   n_dequeued, c_pc, c_task, h_pc, h_task,
                   tick_due, at_drop, elapsed, hs_vars, ss_vars, c_ret,
                   wf_vars, cx_vars, pc_vars>>

\* Faulty variant of WorkerRecvFails: the error is propagated with `?`, the
\* task function returns.
WorkerRecvFailsReturn ==
    /\ w_pc = "recv"
    /\ wire' = Append(wire, WireEvent("recv_fail", NoDatagram))
    /\ w_pc' = "exited"
    /\ UNCHANGED <<client, inbox, tasks, slots, posts, w_task, seq_num, frame,
                   n_dequeued, c_pc, c_task, h_pc, h_task,
                   tick_due, at_drop, elapsed, hs_vars, ss_vars, c_ret,
                   wf_vars, cx_vars, pc_vars>>

\* command_socket.recv fails: callback(Err(IoError)); continue.
WorkerRecvFails ==
    /\ w_pc = "recv"
    /\ wire' = Append(wire, WireEvent("recv_fail", NoDatagram))
    /\ posts' = Callback(w_task, IoError("While receiving command"))
    /\ w_pc' = AfterCallback(slots[w_task].rx = "waiting")
    /\ UNCHANGED <<client, inbox, tasks, slots, w_task, seq_num, frame,
                   n_dequeued, c_pc, c_task, h_pc, h_task,
                   tick_due, at_drop, elapsed, hs_vars, ss_vars, c_ret,
                   wf_vars, cx_vars, pc_vars>>

\* Faulty variant of WorkerRecv: a datagram whose seq_num is not the one of
\* the request is skipped and the worker receives again.
WorkerRecvMatchingSeq ==
    /\ w_pc = "recv"
    /\ \E d \in Datagrams :
        /\ wire' = Append(wire, WireEvent("recv", d))
        /\ Len(wire) < 2 * MaxTasks + 2
        /\ IF d.seq_num # frame.seq_num
           THEN /\ w_pc' = "recv"
                /\ inbox' = inbox
                /\ posts' = posts
           ELSE IF parse(d).tag = "Panic"
           THEN /\ w_pc' = "panicked"
                /\ inbox' = <<>>
                /\ posts' = posts
           ELSE /\ w_pc' = AfterCallback(slots[w_task].rx = "waiting")
                /\ inbox' = inbox
                /\ posts' = Callback(w_task, ResultOf(frame, d))
    /\ UNCHANGED <<client, tasks, slots, w_task, seq_num, frame, n_dequeued,
                   c_pc, c_task, h_pc, h_task,
                   tick_due, at_drop, elapsed, hs_vars, ss_vars, c_ret,
                   wf_vars, cx_vars, pc_vars>>

\* command_socket.recv yields a datagram; it is parsed and the result posted.
\* A panic inside parse ends the worker: its receiver and the callback are dropped.
WorkerRecv ==
    /\ w_pc = "recv"
    /\ \E d \in Datagrams :
        /\ wire' = Append(wire, WireEvent("recv", d))
        /\ IF parse(d).tag = "Panic"
           THEN /\ w_pc' = "panicked"
                /\ inbox' = <<>>
                /\ posts' = posts
           ELSE /\ w_pc' = AfterCallback(slots[w_task].rx = "waiting")
                /\ inbox' = inbox
                /\ posts' = Callback(w_task, ResultOf(frame, d))
    /\ UNCHANGED <<client, tasks, slots, w_task, seq_num, frame, n_dequeued,
                   c_pc, c_task, h_pc, h_task,
                   tick_due, at_drop, elapsed, hs_vars, ss_vars, c_ret,
                   wf_vars, cx_vars, pc_vars>>

\* Faulty variant of WorkerExit: the worker ends as soon as the client is
\* dropped, with whatever the inbox still holds.
WorkerExitOnDrop ==
    /\ w_pc = "idle"
    /\ client = "dropped"
    /\ w_pc' = "exited"
    /\ inbox' = <<>>
    /\ UNCHANGED <<client, tasks, slots, posts, wire, w_task, seq_num, frame,
                   n_dequeued, c_pc, c_task, h_pc, h_task,
                   tick_due, at_drop, elapsed, hs_vars, ss_vars, c_ret,
                   wf_vars, cx_vars, pc_vars>>

\* Faulty variant of WorkerExit: the None of task_receiver.recv() is ignored
\* and the worker polls the closed inbox again.
WorkerExitIgnoresClose ==
    /\ w_pc = "idle"
    /\ inbox = <<>>
    /\ AllSendersDropped
    /\ UNCHANGED vars

\* Faulty variant of WorkerExit: the heartbeat task holds no clone of the
\* inbox sender, so the inbox closes with the client's task_channel.
WorkerExitNoClone ==
    /\ w_pc = "idle"
    /\ inbox = <<>>
    /\ client = "dropped"
    /\ w_pc' = "exited"
    /\ UNCHANGED <<client, inbox, tasks, slots, posts, wire, w_task, seq_num, frame,
                   n_dequeued, c_pc, c_task, h_pc, h_task,
                   tick_due, at_drop, elapsed, hs_vars, ss_vars, c_ret,
                   wf_vars, cx_vars, pc_vars>>

\* task_receiver.recv() yields None: every sender is gone and the inbox is empty.
WorkerExit ==
    /\ w_pc = "idle"
    /\ inbox = <<>>
    /\ AllSendersDropped
    /\ w_pc' = "exited"
    /\ UNCHANGED <<client, inbox, tasks, slots, posts, wire, w_task, seq_num, frame,
                   n_dequeued, c_pc, c_task, h_pc, h_task,
                   tick_due, at_drop, elapsed, hs_vars, ss_vars, c_ret,
                   wf_vars, cx_vars, pc_vars>>

Next ==
    \/ \E c \in Callers : SendCommand(c)
    \/ \E c \in Callers : SendCommandFails(c)
    \/ \E c \in Callers : CallerReceive(c)
    \/ \E c \in Callers : CallerCancel(c)
    \/ DropClient
    \/ HeartbeatStart
    \/ TimerFires
    \/ HeartbeatTick
    \/ HeartbeatSendFails
    \/ HeartbeatReceive
    \/ HeartbeatStop
    \/ WorkerRecvTask
    \/ WorkerSend
    \/ WorkerSendFails
    \/ WorkerRecvFails
    \/ WorkerRecv
    \/ WorkerExit

Spec == Init /\ [][Next]_vars

NextWrap == Next \/ WorkerOverflowPanic

\* Runs from the fresh client and runs from the client whose counter is about
\* to wrap, in either build profile.
SpecWrap == (Init \/ InitWrap) /\ [][NextWrap]_vars

\* ------------------------------------------------------------- shutdown
\* Every task still alive is blocked on the sensor: the worker awaits a
\* datagram in command_socket.recv (it has no timeout) and the heartbeat
\* task, if alive, awaits the slot of a request that has no result yet.
BlockedOnSensor ==
    /\ w_pc = "recv"
    /\ \/ HeartbeatDead
       \/ h_pc = "waiting" /\ ~SlotReady(h_task)

\* Faulty variant of PeriodElapses: command_socket.recv is wrapped in a
\* timeout of one heartbeat period, after which the worker posts an error
\* and takes the next task.
PeriodElapsesTimesOut ==
    /\ client = "dropped"
    /\ elapsed = 0
    /\ BlockedOnSensor
    /\ elapsed' = 1
    /\ posts' = Callback(w_task, IoError("While receiving command"))
    /\ w_pc' = "idle"
    /\ UNCHANGED <<client, inbox, tasks, slots, wire, w_task, seq_num,
                   frame, n_dequeued, c_pc, c_task, h_pc, h_task,
                   tick_due, at_drop, hs_vars, ss_vars, c_ret,
                   wf_vars, cx_vars, pc_vars>>

\* A heartbeat period of wall-clock time goes by after the drop while the
\* tasks are blocked on the sensor.
PeriodElapses ==
    /\ client = "dropped"
    /\ elapsed = 0
    /\ BlockedOnSensor
    /\ elapsed' = 1
    /\ UNCHANGED <<client, inbox, tasks, slots, posts, wire, w_pc, w_task, seq_num,
                   frame, n_dequeued, c_pc, c_task, h_pc, h_task,
                   tick_due, at_drop, hs_vars, ss_vars, c_ret,
                   wf_vars, cx_vars, pc_vars>>

\* The client as one caller uses it, with its background tasks, its drop
\* and the passing of time after the drop.
NextShutdown ==
    \/ SendCommand("c1")
    \/ SendCommandFails("c1")
    \/ CallerReceive("c1")
    \/ CallerCancel("c1")
    \/ DropClient
    \/ HeartbeatStart
    \/ TimerFires
    \/ HeartbeatTick
    \/ HeartbeatSendFails
    \/ HeartbeatReceive
    \/ HeartbeatStop
    \/ WorkerRecvTask
    \/ WorkerSend
    \/ WorkerSendFails
    \/ WorkerRecvFails
    \/ WorkerRecv
    \/ WorkerExit
    \/ PeriodElapses

\* The tokio scheduler polls every task that can make progress, select!
\* picks among its ready branches at random (so the cancel branch is taken
\* if it stays ready), and every socket operation the worker awaits
\* completes: a datagram arrives or the operation fails.
Fairness ==
    /\ WF_vars(HeartbeatStart)
    /\ WF_vars(HeartbeatReceive)
    /\ SF_vars(HeartbeatStop)
    /\ WF_vars(WorkerRecvTask)
    /\ WF_vars(WorkerSend \/ WorkerSendFails)
    /\ WF_vars(WorkerRecv \/ WorkerRecvFails)
    /\ WF_vars(WorkerExit)

SpecShutdown == Init /\ [][NextShutdown]_vars /\ Fairness

\* --------------------------------------------------------- backpressure
\* The client with Backlog tasks of other producers queued and the worker
\* not yet scheduled: one more task fills the inbox.
InitBacklog ==
    /\ client = "alive"
    /\ tasks = [i \in 1..Backlog |-> [command |-> Heartbeat, owner |-> "other"]]
    /\ slots = [i \in 1..Backlog |-> [rx |-> "waiting", got |-> <<>>]]
    /\ inbox = [i \in 1..Backlog |-> i]
    /\ posts = <<>>
    /\ wire = <<>>
    /\ w_pc = "idle"
    /\ w_task = 0
    /\ seq_num = 0
    /\ frame = NoFrame
    /\ n_dequeued = 0
    /\ c_pc = [c \in Callers |-> "ready"]
    /\ c_task = [c \in Callers |-> 0]
    /\ c_ret = [c \in Callers |-> NoResult]
    /\ h_pc = "start"
    /\ h_task = 0
    /\ tick_due = FALSE
    /\ at_drop = {}
    /\ elapsed = 0
    /\ HandshakeDone
    /\ SetSamplingIdle
    /\ DiscoveryIdle
    /\ CodecIdle
    /\ StreamIdle

\* send_command when the inbox holds InboxCapacity tasks: channel.send(task)
\* finds no permit and the call is suspended in its .await, holding the task.
SendCommandFull(c) ==
    /\ client = "alive"
    /\ c_pc[c] = "ready"
    /\ ~WorkerDead
    /\ Len(inbox) >= InboxCapacity
    /\ c_pc' = [c_pc EXCEPT ![c] = "sending"]
    /\ UNCHANGED <<client, inbox, tasks, slots, posts, wire, w_pc, w_task, seq_num,
                   frame, n_dequeued, c_task, h_pc, h_task,
                   tick_due, at_drop, elapsed, hs_vars, ss_vars, c_ret,
                   wf_vars, cx_vars, pc_vars>>

\* A permit is free again: the suspended channel.send completes and the call
\* goes on to await its completion slot.
SendResume(c) ==
    /\ c_pc[c] = "sending"
    /\ Submit(CallerCommand(c), c)
    /\ c_pc' = [c_pc EXCEPT ![c] = "waiting"]
    /\ c_task' = [c_task EXCEPT ![c] = Len(tasks) + 1]
    /\ UNCHANGED <<client, posts, wire, w_pc, w_task, seq_num, frame, n_dequeued,
                   h_pc, h_task,
                   tick_due, at_drop, elapsed, hs_vars, ss_vars, c_ret,
                   wf_vars, cx_vars, pc_vars>>

\* The receiver is dropped while the call is suspended: channel.send gives
\* the task back in a SendError.
SendResumeFails(c) ==
    /\ c_pc[c] = "sending"
    /\ WorkerDead
    /\ c_pc' = [c_pc EXCEPT ![c] = "ready"]
    /\ c_ret' = [c_ret EXCEPT ![c] = AsyncChannelError]
    /\ UNCHANGED <<client, inbox, tasks, slots, posts, wire, w_pc, w_task, seq_num,
                   frame, n_dequeued, c_task, h_pc, h_task,
                   tick_due, at_drop, elapsed, hs_vars, ss_vars,
                   wf_vars, cx_vars, pc_vars>>

\* The callers and the worker; the worker is followed for the first MaxTasks
\* tasks it dequeues.
NextBackpressure ==
    \/ \E c \in Callers : SendCommand(c)
    \/ \E c \in Callers : SendCommandFull(c)
    \/ \E c \in Callers : SendResume(c)
    \/ \E c \in Callers : SendResumeFails(c)
    \/ \E c \in Callers : SendCommandFails(c)
    \/ \E c \in Callers : CallerReceive(c)
    \/ (n_dequeued < MaxTasks /\ WorkerRecvTask)
    \/ WorkerSend
    \/ WorkerSendFails
    \/ WorkerRecvFails
    \/ WorkerRecv

SpecBackpressure == InitBacklog /\ [][NextBackpressure]_vars

\* ------------------------------------------------------------ discovery
NoneBroadcastReceived ==
    [kind |-> "NoneBroadcastReceived", data |-> [reason |-> "none"]]

\* The addresses a broadcast datagram can come from.
SenderAddrs == {"192.168.1.10:65000", "192.168.1.11:65000"}

\* DeviceType::Mid70 as u8.
Mid70 == 6

\* The frames a sender can put on the broadcast port: every cmd_type byte up
\* to 3, every cmd_set up to 2, every cmd_id of the enums and two dev_type
\* values, plus datagrams parse rejects or panics on.
DiscoveryDatagrams ==
    {Frame(t, 0, s, i, a) : t \in 0..3, s \in 0..2, i \in 0..MaxCmdId, a \in {Mid70, 1}}
    \cup {BadSof, UnknownSet, UnknownId, ShortDatagram,
          [Frame(2, 0, 0, 0, Mid70) EXCEPT !.crc16_ok = FALSE],
          [Frame(2, 0, 0, 0, Mid70) EXCEPT !.crc32_ok = FALSE]}

\* The match on dev_type that fills Livox::device_type.
DeviceTypeOf(dev_type) == IF dev_type = Mid70 THEN "Mid70" ELSE "NotImplemented"

\* Faulty variant of IsBroadcastMessage: any frame carrying General cmd_id 0
\* is taken for a broadcast, whatever its cmd_type.
IsBroadcastAnyType(p) == p.data.cmd_set = 0 /\ p.data.cmd_id = 0

\* The if-let pattern FrameData::Message(MessageData::General(
\* general::message::Enum::BroadcastMessage(..))).
IsBroadcastMessage(p) ==
    p.cmd_type = "Message" /\ p.data.cmd_set = 0 /\ p.data.cmd_id = 0

\* wait_for_one from the parse of the datagram on: `?` on the parse error,
\* the if-let, and the Livox it builds.
WaitForOne(d, addr) ==
    LET p == parse(d)
    IN IF p.tag = "Err" THEN ParseError(p.err)
       ELSE IF IsBroadcastMessage(p)
       THEN Ok([lidar_addr |-> addr, device_type |-> DeviceTypeOf(p.data.arg)])
       ELSE NoneBroadcastReceived

\* wait_for_one has been called and nothing else exists yet.
InitDiscovery ==
    /\ client = "none"
    /\ inbox = <<>>
    /\ tasks = <<>>
    /\ slots = <<>>
    /\ posts = <<>>
    /\ wire = <<>>
    /\ w_pc = "none"
    /\ w_task = 0
    /\ seq_num = 0
    /\ frame = NoFrame
    /\ n_dequeued = 0
    /\ c_pc = [c \in Callers |-> "ready"]
    /\ c_task = [c \in Callers |-> 0]
    /\ c_ret = [c \in Callers |-> NoResult]
    /\ h_pc = "none"
    /\ h_task = 0
    /\ tick_due = FALSE
    /\ at_drop = {}
    /\ elapsed = 0
    /\ hs_pc = "none"
    /\ hs_reply = NoDatagram
    /\ hs_result = NoResult
    /\ lidar = "none"
    /\ SetSamplingIdle
    /\ wf_pc = "bind"
    /\ wf_dgram = NoDatagram
    /\ wf_from = "none"
    /\ wf_out = NoResult
    /\ CodecIdle
    /\ StreamIdle

\* UdpSocket::bind((UNSPECIFIED, 55000)) succeeds.
DiscoveryBind ==
    /\ wf_pc = "bind"
    /\ wf_pc' = "recv"
    /\ UNCHANGED <<client, inbox, tasks, slots, posts, wire, w_pc, w_task, seq_num,
                   frame, n_dequeued, c_pc, c_task, c_ret, h_pc, h_task,
                   tick_due, at_drop, elapsed, hs_vars, ss_vars,
                   wf_dgram, wf_from, wf_out, cx_vars, pc_vars>>

\* The bind fails: err_reason and `?`.
DiscoveryBindFails ==
    /\ wf_pc = "bind"
    /\ wf_pc' = "returned"
    /\ wf_out' = IoError("While creating broadcast socket")
    /\ UNCHANGED <<client, inbox, tasks, slots, posts, wire, w_pc, w_task, seq_num,
                   frame, n_dequeued, c_pc, c_task, c_ret, h_pc, h_task,
                   tick_due, at_drop, elapsed, hs_vars, ss_vars,
                   wf_dgram, wf_from, cx_vars, pc_vars>>

\* recv_from fails: err_reason and `?`.
DiscoveryRecvFails ==
    /\ wf_pc = "recv"
    /\ wf_pc' = "returned"
    /\ wf_out' = IoError("While receiving broadcast")
    /\ UNCHANGED <<client, inbox, tasks, slots, posts, wire, w_pc, w_task, seq_num,
                   frame, n_dequeued, c_pc, c_task, c_ret, h_pc, h_task,
                   tick_due, at_drop, elapsed, hs_vars, ss_vars,
                   wf_dgram, wf_from, cx_vars, pc_vars>>

\* recv_from delivers one datagram; it is parsed and matched, and
\* wait_for_one returns (or the parse panics).
DiscoveryRecv ==
    /\ wf_pc = "recv"
    /\ \E d \in DiscoveryDatagrams, addr \in SenderAddrs :
        /\ wf_dgram' = d
        /\ wf_from' = addr
        /\ IF parse(d).tag = "Panic"
           THEN wf_pc' = "panicked" /\ wf_out' = wf_out
           ELSE wf_pc' = "returned" /\ wf_out' = WaitForOne(d, addr)
    /\ UNCHANGED <<client, inbox, tasks, slots, posts, wire, w_pc, w_task, seq_num,
                   frame, n_dequeued, c_pc, c_task, c_ret, h_pc, h_task,
                   tick_due, at_drop, elapsed, hs_vars, ss_vars, cx_vars, pc_vars>>

NextDiscovery ==
    \/ DiscoveryBind
    \/ DiscoveryBindFails
    \/ DiscoveryRecvFails
    \/ DiscoveryRecv

\* One call of wait_for_one, for every datagram and sender.
SpecDiscovery == InitDiscovery /\ [][NextDiscovery]_vars

\* ---------------------------------------------------------- byte codec
\* Bitwise exclusive or of two naturals.
RECURSIVE Xor(_, _)
Xor(a, b) ==
    IF a = 0 THEN b
    ELSE IF b = 0 THEN a
    ELSE ((a + b) % 2) + 2 * Xor(a \div 2, b \div 2)

\* The lookup table of a reflected CRC whose polynomial has the given
\* little-endian bytes: entry b + 1 is the register after eight shifts of b.
CrcTable(poly) ==
    LET n == Len(poly)
        Shift(r) == [i \in 1..n |->
                        (r[i] \div 2) + (IF i < n THEN (r[i + 1] % 2) * 128 ELSE 0)]
        Step(r) == IF r[1] % 2 = 1
                   THEN [i \in 1..n |-> Xor(Shift(r)[i], poly[i])]
                   ELSE Shift(r)
    IN SubSeq([b \in 1..256 |->
                  Step(Step(Step(Step(Step(Step(Step(Step(
                      [i \in 1..n |-> IF i = 1 THEN b - 1 ELSE 0]))))))))],
              1, 256)

\* CRC_16_MCRF4XX and CRC_32_ISO_HDLC: reflected polynomials 0x8408 and
\* 0xEDB88320, as little-endian bytes.
Crc16Table == CrcTable(<<8, 132>>)

Crc32Table == CrcTable(<<32, 131, 184, 237>>)

\* Crc::checksum before the final xor: the register, as little-endian bytes,
\* after the bytes were fed to it one by one.
RECURSIVE CrcFeed(_, _, _, _)
CrcFeed(table, reg, bytes, k) ==
    IF k > Len(bytes) THEN reg
    ELSE LET t == table[Xor(reg[1], bytes[k]) + 1]
         IN CrcFeed(table,
                    IF Len(reg) = 2
                    THEN <<Xor(t[1], reg[2]), t[2]>>
                    ELSE <<Xor(t[1], reg[2]), Xor(t[2], reg[3]),
                           Xor(t[3], reg[4]), t[4]>>,
                    bytes, k + 1)

\* Faulty variant of CRC16: a checksum that does not depend on the bytes.
CRC16Constant(bytes) == <<73, 76>>

\* CRC16.checksum(bytes) in wire order: register seeded with 0x4C49, no
\* final xor.
CRC16(bytes) == CrcFeed(Crc16Table, <<73, 76>>, bytes, 1)

\* CRC32.checksum(bytes) in wire order: register seeded with !0x564F580A,
\* final xor 0xFFFFFFFF.
CRC32(bytes) ==
    LET r == CrcFeed(Crc32Table, <<245, 167, 176, 169>>, bytes, 1)
    IN <<255 - r[1], 255 - r[2], 255 - r[3], 255 - r[4]>>

\* put_u16_le / write_bytes_default_le: value v in w little-endian bytes.
ToLE(v, w) == [i \in 1..w |-> (v \div (256 ^ (i - 1))) % 256]

\* from_le_bytes / read_bytes_default_le.
RECURSIVE FromLE(_)
FromLE(bytes) ==
    IF bytes = <<>> THEN 0 ELSE Head(bytes) + 256 * FromLE(Tail(bytes))

\* generate_full!: the BYTE_LEN of every field of a variant, in order, for
\* the command enums (Request) and the acknowledge enums (Response, Message).
\* An array [u8; n] is n fields of one byte.
FieldWidths(kind, cmd_set, cmd_id) ==
    LET u8s(n) == [i \in 1..n |-> 1]
    IN IF kind = "Request"
       THEN IF cmd_set = 0
            THEN CASE cmd_id = 1 -> u8s(4) \o <<2, 2, 2>>
                   [] cmd_id \in {4, 5} -> <<1>>
                   [] cmd_id = 8 -> u8s(13)
                   [] cmd_id = 10 -> <<2>>
                   [] OTHER -> <<>>
            ELSE CASE cmd_id \in {0, 3, 4, 6, 8} -> <<1>>
                   [] cmd_id = 1 -> <<4, 4, 4, 4, 4, 4>>
                   [] cmd_id = 10 -> <<1, 1, 1, 1, 4>>
                   [] OTHER -> <<>>
       ELSE IF cmd_set = 0
            THEN CASE cmd_id = 0 -> u8s(17) \o <<2>>
                   [] cmd_id = 2 -> u8s(5)
                   [] cmd_id = 3 -> <<1, 1, 1, 4>>
                   [] cmd_id = 7 -> <<4>>
                   [] cmd_id = 9 -> u8s(14)
                   [] OTHER -> <<1>>
            ELSE CASE cmd_id = 2 -> <<1, 4, 4, 4, 4, 4, 4>>
                   [] cmd_id \in {5, 9} -> <<1, 1>>
                   [] cmd_id = 7 -> <<4, 1>>
                   [] OTHER -> <<1>>

\* The sum of a sequence of widths.
RECURSIVE SumOf(_)
SumOf(ws) == IF ws = <<>> THEN 0 ELSE Head(ws) + SumOf(Tail(ws))

\* MAX_BYTE_LEN of the enum: the largest variant body plus the id byte.
MAX_BYTE_LEN(kind, cmd_set) ==
    1 + (CHOOSE m \in 0..64 :
            /\ \E i \in 0..MaxCmdId : SumOf(FieldWidths(kind, cmd_set, i)) = m
            /\ \A i \in 0..MaxCmdId : SumOf(FieldWidths(kind, cmd_set, i)) <= m)

\* The generated write_bytes into a zeroed buffer of MAX_BYTE_LEN bytes: the
\* variant's number, then each field in little-endian, then the zeros left.
RECURSIVE WriteFields(_, _)
WriteFields(ws, vs) ==
    IF ws = <<>> THEN <<>>
    ELSE ToLE(Head(vs), Head(ws)) \o WriteFields(Tail(ws), Tail(vs))

write_bytes(data) ==
    LET used == <<data.cmd_id>> \o
                WriteFields(FieldWidths(data.kind, data.cmd_set, data.cmd_id), data.fields)
    IN used \o [i \in 1..(MAX_BYTE_LEN(data.kind, data.cmd_set) - Len(used)) |-> 0]

\* ControlFrame::serialize.  The Hub variants end in todo!().
serialize(fr) ==
    IF fr.data.cmd_set = 2 THEN Panic
    ELSE LET data == write_bytes(fr.data)
             head == <<SOF, fr.version>> \o ToLE(Len(data) + 14, 2)
                     \o <<IF fr.data.kind = "Request" THEN 0 ELSE 1>>
                     \o ToLE(fr.seq_num, 2)
             body == head \o CRC16(head)
                     \o <<IF fr.data.cmd_set = 0 THEN 0 ELSE 1>> \o data
         IN [tag |-> "Ok", bytes |-> body \o CRC32(body)]

\* The generated read_bytes on the bytes after cmd_set: the variant number,
\* then each field; indexing past the end or an unknown number panics.
RECURSIVE ReadFields(_, _)
ReadFields(ws, bytes) ==
    IF ws = <<>> THEN <<>>
    ELSE <<FromLE(SubSeq(bytes, 1, Head(ws)))>>
         \o ReadFields(Tail(ws), SubSeq(bytes, Head(ws) + 1, Len(bytes)))

read_bytes(kind, cmd_set, bytes) ==
    IF bytes = <<>> THEN Panic
    ELSE IF UnknownEnumId(bytes[1]) THEN Panic
    ELSE LET ws == FieldWidths(kind, cmd_set, bytes[1])
         IN IF Len(bytes) < 1 + SumOf(ws) THEN Panic
            ELSE [tag |-> "Ok",
                  data |-> [kind |-> kind, cmd_set |-> cmd_set, cmd_id |-> bytes[1],
                            fields |-> ReadFields(ws, Tail(bytes))]]

\* Faulty variant of ParseBytes: the header checksum is verified before the
\* first byte is looked at.
ParseBytesCrcFirst(f) ==
    IF Len(f) < HeaderLen THEN Panic
    ELSE IF <<f[8], f[9]>> # CRC16(SubSeq(f, 1, 7)) THEN ParseErr("InvalidCrc16")
    ELSE IF f[1] # SOF THEN ParseErr("InvalidSOF")
    ELSE ParseErr("InvalidCrc32")

\* Faulty variant of ParseBytes: the frame checksum is verified before the
\* header checksum.
ParseBytesCrc32First(f) ==
    IF f = <<>> THEN Panic
    ELSE IF f[1] # SOF THEN ParseErr("InvalidSOF")
    ELSE IF Len(f) < HeaderLen THEN Panic
    ELSE IF f[3] < CrcLen \/ f[3] > Len(f) THEN Panic
    ELSE IF SubSeq(f, f[3] - 3, f[3]) # CRC32(SubSeq(f, 1, f[3] - 4))
    THEN ParseErr("InvalidCrc32")
    ELSE IF <<f[8], f[9]>> # CRC16(SubSeq(f, 1, 7)) THEN ParseErr("InvalidCrc16")
    ELSE ParseErr("InvalidCommandType")

\* ControlFrame::parse on the bytes of a datagram (f[i + 1] is frame[i]).
ParseBytes(f) ==
    IF f = <<>> THEN Panic
    ELSE IF f[1] # SOF THEN ParseErr("InvalidSOF")
    ELSE IF Len(f) < HeaderLen THEN Panic
    ELSE IF <<f[8], f[9]>> # CRC16(SubSeq(f, 1, 7)) THEN ParseErr("InvalidCrc16")
    ELSE LET len == f[3]
         IN IF len < CrcLen \/ len > Len(f) THEN Panic
            ELSE IF SubSeq(f, len - 3, len) # CRC32(SubSeq(f, 1, len - 4))
            THEN ParseErr("InvalidCrc32")
            ELSE IF f[5] \notin {0, 1, 2} THEN ParseErr("InvalidCommandType")
            ELSE IF len - CrcLen <= HeaderLen THEN Panic
            ELSE IF f[10] \notin {0, 1, 2} THEN ParseErr("InvalidCommandType")
            ELSE LET kind == CmdTypeName(f[5])
                     r == IF f[10] = 2
                          THEN [tag |-> "Ok",
                                data |-> [kind |-> kind, cmd_set |-> 2, cmd_id |-> 0,
                                          fields |-> <<>>]]
                          ELSE read_bytes(kind, f[10], SubSeq(f, 11, len - CrcLen))
                 IN IF r.tag = "Panic" THEN Panic
                    ELSE [tag |-> "Ok",
                          frame |-> [version |-> f[2], data |-> r.data,
                                     seq_num |-> FromLE(<<f[6], f[7]>>)]]

\* No socket, client or task exists: the codec is called on its own.
NoClient ==
    /\ client = "none"
    /\ inbox = <<>>
    /\ tasks = <<>>
    /\ slots = <<>>
    /\ posts = <<>>
    /\ wire = <<>>
    /\ w_pc = "none"
    /\ w_task = 0
    /\ seq_num = 0
    /\ frame = NoFrame
    /\ n_dequeued = 0
    /\ c_pc = [c \in Callers |-> "ready"]
    /\ c_task = [c \in Callers |-> 0]
    /\ c_ret = [c \in Callers |-> NoResult]
    /\ h_pc = "none"
    /\ h_task = 0
    /\ tick_due = FALSE
    /\ at_drop = {}
    /\ elapsed = 0
    /\ hs_pc = "none"
    /\ hs_reply = NoDatagram
    /\ hs_result = NoResult
    /\ lidar = "none"
    /\ SetSamplingIdle
    /\ DiscoveryIdle

\* The ControlFrames handed to serialize: every variant of the four enums
\* under each frame kind, its fields filled with small or with large values,
\* and the Hub variants parse can return.
CodecFrames ==
    {[version |-> v,
      data |-> [kind |-> k, cmd_set |-> s, cmd_id |-> i,
                fields |-> [j \in 1..Len(FieldWidths(k, s, i)) |->
                               IF big
                               THEN 2 ^ (8 * FieldWidths(k, s, i)[j] - 2) - j
                               ELSE j]],
      seq_num |-> n] :
        v \in {1, 2}, k \in {"Request", "Response", "Message"}, s \in {0, 1},
        i \in 0..MaxCmdId, big \in BOOLEAN, n \in {3, SeqModulus - 1}}
    \cup {[version |-> 1,
           data |-> [kind |-> k, cmd_set |-> 2, cmd_id |-> 0, fields |-> <<>>],
           seq_num |-> 3] : k \in {"Request", "Response"}}

\* Datagrams that are no serialized frame: up to three bytes of any mix of
\* SOF and other values.
RawInputs ==
    LET B == {0, 85, SOF, 255}
    IN {<<a>> : a \in B} \cup {<<a, b>> : a, b \in B}
       \cup {<<a, b, c>> : a, b, c \in B}

\* Either a frame is about to be serialized or a raw datagram is about to be
\* parsed.
InitCodec ==
    /\ NoClient
    /\ StreamIdle
    /\ cx_pos = 0
    /\ cx_out = Panic
    /\ \/ cx_pc = "frame" /\ cx_frame \in CodecFrames /\ cx_bytes = <<>>
       \/ cx_pc = "bytes" /\ cx_frame = NoFrame /\ cx_bytes \in RawInputs

\* frame.serialize().
CodecSerialize ==
    /\ cx_pc = "frame"
    /\ LET r == serialize(cx_frame)
       IN IF r.tag = "Panic"
          THEN cx_pc' = "panicked" /\ cx_bytes' = cx_bytes
          ELSE cx_pc' = "bytes" /\ cx_bytes' = r.bytes
    /\ UNCHANGED <<client, inbox, tasks, slots, posts, wire, w_pc, w_task, seq_num,
                   frame, n_dequeued, c_pc, c_task, c_ret, h_pc, h_task,
                   tick_due, at_drop, elapsed, hs_vars, ss_vars, wf_vars,
                   cx_frame, cx_pos, cx_out, pc_vars>>

\* One byte of a serialized frame is changed on the way: one bit of it, or
\* all of its bits.
CodecCorrupt ==
    /\ cx_pc = "bytes"
    /\ cx_frame # NoFrame
    /\ cx_frame.version = 1 /\ cx_frame.seq_num = 3
    /\ cx_frame.data.kind # "Message" /\ cx_frame.data.cmd_id <= 2
    /\ \E p \in 1..Len(cx_bytes), m \in {1, 255} :
        /\ cx_bytes' = [cx_bytes EXCEPT ![p] = Xor(cx_bytes[p], m)]
        /\ cx_pos' = p
    /\ cx_pc' = "changed"
    /\ UNCHANGED <<client, inbox, tasks, slots, posts, wire, w_pc, w_task, seq_num,
                   frame, n_dequeued, c_pc, c_task, c_ret, h_pc, h_task,
                   tick_due, at_drop, elapsed, hs_vars, ss_vars, wf_vars,
                   cx_frame, cx_out, pc_vars>>

\* A sender frames a payload whose cmd_set or cmd_id byte this library does
\* not know: the byte of a serialized frame is replaced and the frame
\* checksum is computed over the result, which is the serialization of no
\* ControlFrame.
CodecForge ==
    /\ cx_pc = "bytes"
    /\ cx_frame # NoFrame
    /\ cx_frame.version = 1 /\ cx_frame.seq_num = 3
    /\ cx_frame.data.cmd_set # 2 /\ cx_frame.data.cmd_id <= 2
    /\ \E p \in {HeaderLen + 1, HeaderLen + 2}, v \in {MaxCmdId + 1, 255} :
        LET body == SubSeq([cx_bytes EXCEPT ![p] = v], 1, Len(cx_bytes) - CrcLen)
        IN cx_bytes' = body \o CRC32(body)
    /\ cx_frame' = NoFrame
    /\ cx_pc' = "forged"
    /\ UNCHANGED <<client, inbox, tasks, slots, posts, wire, w_pc, w_task, seq_num,
                   frame, n_dequeued, c_pc, c_task, c_ret, h_pc, h_task,
                   tick_due, at_drop, elapsed, hs_vars, ss_vars, wf_vars,
                   cx_pos, cx_out, pc_vars>>

\* socket.recv delivers fewer bytes than the frame declares: the header
\* alone, or all but the last byte.
CodecTruncate ==
    /\ cx_pc = "bytes"
    /\ cx_frame # NoFrame
    /\ cx_frame.version = 1 /\ cx_frame.seq_num = 3
    /\ cx_frame.data.cmd_id <= 2
    /\ \E n \in {HeaderLen, Len(cx_bytes) - 1} :
        cx_bytes' = SubSeq(cx_bytes, 1, n)
    /\ cx_frame' = NoFrame
    /\ cx_pc' = "cut"
    /\ UNCHANGED <<client, inbox, tasks, slots, posts, wire, w_pc, w_task, seq_num,
                   frame, n_dequeued, c_pc, c_task, c_ret, h_pc, h_task,
                   tick_due, at_drop, elapsed, hs_vars, ss_vars, wf_vars,
                   cx_pos, cx_out, pc_vars>>

\* ControlFrame::parse(&bytes).
CodecParse ==
    /\ cx_pc \in {"bytes", "changed", "forged", "cut"}
    /\ LET r == ParseBytes(cx_bytes)
       IN /\ cx_out' = r
          /\ cx_pc' = IF r.tag = "Panic" THEN "panicked" ELSE "parsed"
    /\ UNCHANGED <<client, inbox, tasks, slots, posts, wire, w_pc, w_task, seq_num,
                   frame, n_dequeued, c_pc, c_task, c_ret, h_pc, h_task,
                   tick_due, at_drop, elapsed, hs_vars, ss_vars, wf_vars,
                   cx_frame, cx_bytes, cx_pos, pc_vars>>

NextCodec ==
    CodecSerialize \/ CodecCorrupt \/ CodecForge \/ CodecTruncate \/ CodecParse

\* serialize and parse applied to every frame and datagram above.
SpecCodec == InitCodec /\ [][NextCodec]_vars

\* ----------------------------------------------------------- point cloud
\* [DT2; 96] / [DT3; 96] and SMatrix<f32, 4, 96>: the points of one datagram.
PointsPerFrame == 96

\* frame[18..]: the bytes before the point records.
PointHeaderLen == 18

\* DT2::BYTE_LEN (x, y, z: i32, reflectivity: u8, tag: u8) and DT3::BYTE_LEN
\* (depth: u32, theta, phi: u16, reflectivity: u8, tag: u8).
PointByteLen(data_type) == IF data_type = 2 THEN 14 ELSE 10

\* The fraction bits an f32 keeps, the implicit leading one included.
F32Mantissa == 24

\* i32::read_bytes_default_le on four bytes: little-endian two's complement.
I32FromLE(b) ==
    b[1] + 256 * b[2] + 65536 * b[3] + 16777216 * (IF b[4] >= 128 THEN b[4] - 256 ELSE b[4])

\* The number of binary digits of a natural.
RECURSIVE BitLen(_)
BitLen(n) == IF n = 0 THEN 0 ELSE 1 + BitLen(n \div 2)

\* `v as f32` for an i32 v: v when it has at most 24 significant bits,
\* otherwise v rounded to 24 significant bits, ties to even.  The result is
\* an integer again, since the dropped bits are all above the binary point.
AsF32(v) ==
    LET a == IF v < 0 THEN 0 - v ELSE v
        q == 2 ^ (IF BitLen(a) > F32Mantissa THEN BitLen(a) - F32Mantissa ELSE 0)
        m == a \div q
        r == a % q
        up == 2 * r > q \/ (2 * r = q /\ m % 2 = 1)
        n == (IF up THEN m + 1 ELSE m) * q
    IN IF v < 0 THEN 0 - n ELSE n

\* frame[18..].chunks(n): the chunks of the bytes after the header, the last
\* one shorter when the length is not a multiple of n.
Chunks(f, n) ==
    LET len == Len(f) - PointHeaderLen
        cnt == (len + n - 1) \div n
    IN [k \in 1..cnt |->
           SubSeq(f, PointHeaderLen + (k - 1) * n + 1,
                  IF PointHeaderLen + k * n <= Len(f) THEN PointHeaderLen + k * n
                  ELSE Len(f))]

\* PointCloudFrame::parse.  The fields are evaluated in order: frame[0..2],
\* &frame[4..8], frame[9], frame[18..]; every chunk goes through the derived
\* read_bytes_default_le, which slices the chunk at the struct's field
\* offsets, before try_from compares the number of points with 96.
PointCloudParse(f) ==
    IF Len(f) < 10 THEN Panic
    ELSE IF f[10] \notin {2, 3} THEN ParseErr("InvalidData")
    ELSE IF Len(f) < PointHeaderLen THEN Panic
    ELSE LET n == PointByteLen(f[10])
             ch == Chunks(f, n)
         IN IF \E k \in DOMAIN ch : Len(ch[k]) < n THEN Panic
            ELSE IF Len(ch) # PointsPerFrame THEN ParseErr("WrongPointCloudSize")
            ELSE [tag |-> "Ok",
                  frame |-> [version |-> f[1], slot_id |-> f[2], lidar_id |-> f[3],
                             status_code |-> SubSeq(f, 5, 8),
                             timestamp_type |-> 0, timestamp |-> 0,
                             data_type |-> f[10],
                             points |-> [k \in 1..PointsPerFrame |->
                                 IF f[10] = 2
                                 THEN <<I32FromLE(SubSeq(ch[k], 1, 4)),
                                        I32FromLE(SubSeq(ch[k], 5, 8)),
                                        I32FromLE(SubSeq(ch[k], 9, 12)),
                                        ch[k][13], ch[k][14]>>
                                 ELSE <<FromLE(SubSeq(ch[k], 1, 4)),
                                        FromLE(SubSeq(ch[k], 5, 6)),
                                        FromLE(SubSeq(ch[k], 7, 8)),
                                        ch[k][9], ch[k][10]>>]]]

\* The matrix parser without the homogeneous row: columns (x, y, z).
parse_matrix(f) ==
    IF Len(f) < 10 THEN Panic
    ELSE IF f[10] # 2 THEN Panic
    ELSE IF Len(f) < PointHeaderLen THEN Panic
    ELSE LET ch == Chunks(f, PointByteLen(2))
         IN IF \E k \in DOMAIN ch : Len(ch[k]) < 12 THEN Panic
            ELSE IF Len(ch) # PointsPerFrame THEN Panic
            ELSE [tag |-> "Ok",
                  matrix |-> [k \in 1..PointsPerFrame |->
                                 <<AsF32(I32FromLE(SubSeq(ch[k], 1, 4))),
                                   AsF32(I32FromLE(SubSeq(ch[k], 5, 8))),
                                   AsF32(I32FromLE(SubSeq(ch[k], 9, 12)))>>]]

\* PointCloudFrame::parse_augmented_matrix, the matrix parser the stream
\* calls: assert_eq!(frame[9], 0x02), frame[18..], the slices &d[0..4],
\* &d[4..8], &d[8..12] of every chunk, and from_columns, which asserts that
\* it was given one column per column of the matrix.  It returns the matrix
\* itself, as the sequence of its columns; every failure is a panic.
parse_augmented_matrix(f) ==
    IF Len(f) < 10 THEN Panic
    ELSE IF f[10] # 2 THEN Panic
    ELSE IF Len(f) < PointHeaderLen THEN Panic
    ELSE LET ch == Chunks(f, PointByteLen(2))
         IN IF \E k \in DOMAIN ch : Len(ch[k]) < 12 THEN Panic
            ELSE IF Len(ch) # PointsPerFrame THEN Panic
            ELSE [tag |-> "Ok",
                  matrix |-> [k \in 1..PointsPerFrame |->
                                 <<AsF32(I32FromLE(SubSeq(ch[k], 1, 4))),
                                   AsF32(I32FromLE(SubSeq(ch[k], 5, 8))),
                                   AsF32(I32FromLE(SubSeq(ch[k], 9, 12))), 1>>]]

\* The items a stream yields in this model before it is left alone.
MaxItems == 2

\* The 18 bytes before the point records, data_type at frame[9].
PointHeader(data_type) ==
    <<5, 1, 1, 0, 0, 0, 0, 0, 0, data_type, 0, 0, 0, 0, 0, 0, 0, 0>>

\* The coordinates of record k (from 0) in the datagrams of this model:
\* "ramp" is (k, 2k, 3k); "wide" has negative coordinates and coordinates of
\* more than 24 significant bits.
Coordinates(pattern, k) ==
    IF pattern = "ramp" THEN <<k, 2 * k, 3 * k>>
    ELSE <<0 - (k + 1), 2 ^ F32Mantissa + 1 + 2 * k, 0 - (2 ^ 30) + 3 + k>>

\* Record k as the device writes it, little-endian.
PointRecord(data_type, pattern, k) ==
    LET c == Coordinates(pattern, k)
    IN IF data_type = 3
       THEN ToLE(c[1], 4) \o ToLE(c[2], 2) \o ToLE(c[3], 2) \o <<10, 0>>
       ELSE ToLE(c[1], 4) \o ToLE(c[2], 4) \o ToLE(c[3], 4) \o <<10, 0>>

\* A datagram with the given data_type byte: n whole records of the size the
\* data_type has, followed by the first `extra` bytes of one more record.
PointDatagram(data_type, pattern, n, extra) ==
    LET len == PointByteLen(data_type)
        size == n * len + extra
    IN PointHeader(data_type) \o
       SubSeq([i \in 1..size |->
                  PointRecord(data_type, pattern, (i - 1) \div len)[((i - 1) % len) + 1]],
              1, size)

\* The datagrams the data socket delivers in this model: every data_type
\* arm of the parsers, too few, exactly enough and too many records, a
\* trailing partial record, and datagrams that end inside the header.
PointDatagrams ==
    { PointDatagram(t, "ramp", n, e) :
          t \in {1, 2, 3}, n \in {0, 95, 96, 97}, e \in {0, 5, 12} }
    \cup { PointDatagram(2, "wide", PointsPerFrame, e) : e \in {0, 5} }
    \cup { SubSeq(PointHeader(t), 1, l) : t \in {1, 2}, l \in {4, 12} }

\* A LivoxClient whose caller either holds one datagram to hand to
\* PointCloudFrame::parse or has just created homogeneous_matrix_stream().
InitStream ==
    /\ FreshClient
    /\ pc_items = <<>>
    /\ pc_frame = Panic
    /\ \/ pc_pc = "input" /\ pc_dgram \in PointDatagrams
       \/ pc_pc = "recv" /\ pc_dgram = <<>>

\* PointCloudFrame::parse(&datagram).
PointCloudFrameParse ==
    /\ pc_pc = "input"
    /\ pc_frame' = PointCloudParse(pc_dgram)
    /\ pc_pc' = "parsed"
    /\ UNCHANGED <<client, inbox, tasks, slots, posts, wire, w_pc, w_task, seq_num,
                   frame, n_dequeued, c_pc, c_task, c_ret, h_pc, h_task,
                   tick_due, at_drop, elapsed, hs_vars, ss_vars, wf_vars,
                   cx_vars, pc_dgram, pc_items>>

\* One turn of the loop of homogeneous_matrix_stream: socket.recv returned a
\* datagram and the stream yields what the matrix parser returns.  `yield`
\* in try_stream! wraps its value in Ok; a panic of the parser unwinds
\* through the poll of the stream into the task that polls it.
StreamRecv ==
    /\ pc_pc = "recv"
    /\ Len(pc_items) < MaxItems
    /\ \E d \in PointDatagrams :
          LET r == parse_augmented_matrix(d)
          IN /\ pc_dgram' = d
             /\ IF r.tag = "Panic"
                THEN pc_pc' = "panicked" /\ pc_items' = pc_items
                ELSE pc_pc' = "recv" /\
                     pc_items' = Append(pc_items, Ok([matrix |-> r.matrix]))
    /\ UNCHANGED <<client, inbox, tasks, slots, posts, wire, w_pc, w_task, seq_num,
                   frame, n_dequeued, c_pc, c_task, c_ret, h_pc, h_task,
                   tick_due, at_drop, elapsed, hs_vars, ss_vars, wf_vars,
                   cx_vars, pc_frame>>

\* socket.recv returned an error: `?` yields it as the last item.
StreamRecvFails ==
    /\ pc_pc = "recv"
    /\ pc_items' = Append(pc_items, IoError("While reading point cloud frame"))
    /\ pc_pc' = "ended"
    /\ UNCHANGED <<client, inbox, tasks, slots, posts, wire, w_pc, w_task, seq_num,
                   frame, n_dequeued, c_pc, c_task, c_ret, h_pc, h_task,
                   tick_due, at_drop, elapsed, hs_vars, ss_vars, wf_vars,
                   cx_vars, pc_dgram, pc_frame>>

NextStream == PointCloudFrameParse \/ StreamRecv \/ StreamRecvFails

\* The two point-cloud parsers applied to every datagram above, the matrix
\* parser from inside the stream.
SpecStream == InitStream /\ [][NextStream]_vars

\* ----------------------------------------------------------- handshake
\* The Response frame Handshake { ret_code: 1 }.
RespHandshakeRefused == Frame(1, 0, 0, 1, 1)

\* A Response frame of the LiDAR command set (SetMode).
RespSetMode == Frame(1, 0, 1, 0, 0)

\* The datagrams the command socket delivers as the reply to the handshake.
HandshakeReplies ==
    {RespHandshake, RespHandshakeRefused, RespHeartbeat, RespSetMode, ReqFrame,
     MsgFrame, BadSof, UnknownSet, UnknownId, ShortDatagram}

HandshakeFailed(device) == [kind |-> "HandshakeFailed", data |-> [device |-> device]]

\* response.try_into() for the response struct of General command cmd_id.
ExtractAs(response, cmd_id) ==
    IF response.cmd_set # 0 THEN [tag |-> "WrongCommandSet", data |-> response]
    ELSE IF response.cmd_id # cmd_id THEN [tag |-> "WrongCommand", data |-> response]
    ELSE [tag |-> "Ok", ret_code |-> response.arg]

\* if let FrameData::Response(response) = handshake_ack.data
\*     { if let Ok(Handshake { ret_code: 0 }) = response.try_into() {..} }
HandshakeAccepted(p) ==
    /\ p.cmd_type = "Response"
    /\ ExtractAs(p.data, RespHandshake.cmd_id).tag = "Ok"
    /\ ExtractAs(p.data, RespHandshake.cmd_id).ret_code = 0

\* Faulty variant of HandshakeReturn: every handshake Response is accepted,
\* whatever its ret_code.
HandshakeReturnAnyRetCode(d, device) ==
    LET p == parse(d)
    IN IF p.tag = "Err" THEN ParseError(p.err)
       ELSE IF p.cmd_type = "Response" /\ ExtractAs(p.data, RespHandshake.cmd_id).tag = "Ok"
       THEN [kind |-> "Ok", data |-> [device |-> device]]
       ELSE HandshakeFailed(device)

\* Faulty variant of HandshakeReturn: the error carries a fresh device
\* record instead of the one handshake was called on.
HandshakeReturnFreshDevice(d, device) ==
    LET p == parse(d)
    IN IF p.tag = "Err" THEN ParseError(p.err)
       ELSE IF HandshakeAccepted(p) THEN [kind |-> "Ok", data |-> [device |-> device]]
       ELSE HandshakeFailed("lidar_a")

\* What handshake returns once the reply d was parsed without a panic.
HandshakeReturn(d, device) ==
    LET p == parse(d)
    IN IF p.tag = "Err" THEN ParseError(p.err)
       ELSE IF HandshakeAccepted(p) THEN [kind |-> "Ok", data |-> [device |-> device]]
       ELSE HandshakeFailed(device)

\* Livox::handshake is called on a device record; no client exists yet.
InitHandshake ==
    /\ client = "none"
    /\ inbox = <<>>
    /\ tasks = <<>>
    /\ slots = <<>>
    /\ posts = <<>>
    /\ wire = <<>>
    /\ w_pc = "none"
    /\ w_task = 0
    /\ seq_num = 0
    /\ frame = NoFrame
    /\ n_dequeued = 0
    /\ c_pc = [c \in Callers |-> "ready"]
    /\ c_task = [c \in Callers |-> 0]
    /\ c_ret = [c \in Callers |-> NoResult]
    /\ h_pc = "none"
    /\ h_task = 0
    /\ tick_due = FALSE
    /\ at_drop = {}
    /\ elapsed = 0
    /\ hs_pc = "bind"
    /\ hs_reply = NoDatagram
    /\ hs_result = NoResult
    /\ lidar \in Devices
    /\ SetSamplingIdle
    /\ DiscoveryIdle
    /\ CodecIdle
    /\ StreamIdle

\* handshake returns an error: nothing was spawned.
HandshakeReturnsErr(result) ==
    /\ hs_pc' = "returned"
    /\ hs_result' = result
    /\ UNCHANGED <<client, inbox, tasks, slots, posts, wire, w_pc, w_task, seq_num,
                   frame, n_dequeued, c_pc, c_task, h_pc, h_task,
                   tick_due, at_drop, elapsed, hs_reply, lidar, ss_vars, c_ret,
                   wf_vars, cx_vars, pc_vars>>

\* The two sockets are bound and the command socket is connected.
HandshakeBind ==
    /\ hs_pc = "bind"
    /\ hs_pc' = "send"
    /\ UNCHANGED <<client, inbox, tasks, slots, posts, wire, w_pc, w_task, seq_num,
                   frame, n_dequeued, c_pc, c_task, h_pc, h_task,
                   tick_due, at_drop, elapsed, hs_reply, hs_result, lidar, ss_vars, c_ret,
                   wf_vars, cx_vars, pc_vars>>

\* UdpSocket::bind or connect fails: .err_reason(..)?
HandshakeBindFails ==
    /\ hs_pc = "bind"
    /\ \E reason \in {"While creating command socket",
                      "While connecting socket to LiDAR",
                      "While creating data socket"} :
          HandshakeReturnsErr(IoError(reason))

\* command_socket.send(handshake.serialize()) succeeds.
HandshakeSend ==
    /\ hs_pc = "send"
    /\ hs_pc' = "recv"
    /\ UNCHANGED <<client, inbox, tasks, slots, posts, wire, w_pc, w_task, seq_num,
                   frame, n_dequeued, c_pc, c_task, h_pc, h_task,
                   tick_due, at_drop, elapsed, hs_reply, hs_result, lidar, ss_vars, c_ret,
                   wf_vars, cx_vars, pc_vars>>

HandshakeSendFails ==
    /\ hs_pc = "send"
    /\ HandshakeReturnsErr(IoError("While sending handshake"))

HandshakeRecvFails ==
    /\ hs_pc = "recv"
    /\ HandshakeReturnsErr(IoError("While receiving handshake"))

\* command_socket.recv yields the reply; it is parsed and matched.  On
\* Handshake { ret_code: 0 } the inbox is created, the worker and the
\* heartbeat task are spawned and the client is returned.
HandshakeRecv ==
    /\ hs_pc = "recv"
    /\ \E d \in HandshakeReplies :
        /\ hs_reply' = d
        /\ IF parse(d).tag = "Panic"
           THEN /\ hs_pc' = "panicked"
                /\ hs_result' = hs_result
                /\ UNCHANGED <<client, w_pc, h_pc, c_ret,
                   wf_vars, cx_vars, pc_vars>>
           ELSE /\ hs_pc' = "returned"
                /\ hs_result' = HandshakeReturn(d, lidar)
                /\ IF HandshakeReturn(d, lidar).kind = "Ok"
                   THEN client' = "alive" /\ w_pc' = "idle" /\ h_pc' = "start"
                   ELSE UNCHANGED <<client, w_pc, h_pc, c_ret,
                   wf_vars, cx_vars, pc_vars>>
    /\ UNCHANGED <<inbox, tasks, slots, posts, wire, w_task, seq_num,
                   frame, n_dequeued, c_pc, c_task, h_task,
                   tick_due, at_drop, elapsed, lidar, ss_vars, c_ret,
                   wf_vars, cx_vars, pc_vars>>

NextHandshake ==
    \/ HandshakeBind
    \/ HandshakeBindFails
    \/ HandshakeSend
    \/ HandshakeSendFails
    \/ HandshakeRecvFails
    \/ HandshakeRecv
    \/ NextShutdown

\* A device record from the call of handshake on, with the client it may yield.
SpecHandshake == InitHandshake /\ [][NextHandshake]_vars

\* -------------------------------------------------------- set_sampling
AckFailed(ret_code) == [kind |-> "AckFailed", data |-> [ret_code |-> ret_code]]

AckWrong(response) == [kind |-> "AckWrong", data |-> response]

\* Values of the u8 ret_code of a response.
RetCodes == {0, 1, 2, 255}

\* What send_command may return to set_sampling: a response of either
\* command set, BadResponse with the payload of the request,
SamplingAcks ==
    {Ok([cmd_set |-> s, cmd_id |-> i, arg |-> r]) :
        s \in {0, 1}, i \in 0..MaxCmdId, r \in RetCodes}
    \cup {BadResponse(StartStopSampling(0)), BadResponse(StartStopSampling(1))}

\* or one of the other errors of the multiplexer.
SamplingErrors ==
    {IoError("While sending command"), IoError("While receiving command"),
     ParseError("InvalidSOF"), AsyncChannelError, AsyncCallbackError}

\* Faulty variant of SetSampling: a StartStopSampling response counts as
\* success whatever its ret_code.
SetSamplingIgnoresRetCode(ack) ==
    IF ack.kind # "Ok" THEN ack
    ELSE LET x == ExtractAs(ack.data, StartStopSampling(0).cmd_id)
         IN IF x.tag = "Ok" THEN [kind |-> "Ok", data |-> [unit |-> TRUE]]
            ELSE AckWrong(x.data)

\* Faulty variant of SetSampling: a response that is not StartStopSampling is
\* reported as AckFailed with the byte found where the ret_code would be.
SetSamplingWrongIsFailed(ack) ==
    IF ack.kind # "Ok" THEN ack
    ELSE LET x == ExtractAs(ack.data, StartStopSampling(0).cmd_id)
         IN IF x.tag = "Ok" /\ x.ret_code = 0 THEN [kind |-> "Ok", data |-> [unit |-> TRUE]]
            ELSE IF x.tag = "Ok" THEN AckFailed(x.ret_code)
            ELSE AckFailed(x.data.arg)

\* set_sampling after send_command returned ack: `?`, then the match on
\* ack.try_into().
SetSampling(ack) ==
    IF ack.kind # "Ok" THEN ack
    ELSE LET x == ExtractAs(ack.data, StartStopSampling(0).cmd_id)
         IN IF x.tag = "Ok" /\ x.ret_code = 0 THEN [kind |-> "Ok", data |-> [unit |-> TRUE]]
            ELSE IF x.tag = "Ok" THEN AckFailed(x.ret_code)
            ELSE AckWrong(x.data)

\* set_sampling(start) builds its request and hands it to send_command.
SetSamplingCall ==
    /\ ss_pc = "none"
    /\ client = "alive"
    /\ \E start \in BOOLEAN :
        /\ ss_start' = start
        /\ ss_cmd' = StartStopSampling(IF start THEN 1 ELSE 0)
        /\ Submit(StartStopSampling(IF start THEN 1 ELSE 0), "set_sampling")
    /\ ss_pc' = "called"
    /\ UNCHANGED <<client, posts, wire, w_pc, w_task, seq_num, frame, n_dequeued,
                   c_pc, c_task, h_pc, h_task,
                   tick_due, at_drop, elapsed, hs_vars, ss_ack, ss_out, c_ret,
                   wf_vars, cx_vars, pc_vars>>

\* send_command returns and set_sampling maps the result.
SetSamplingReturn ==
    /\ ss_pc = "called"
    /\ \/ \E ack \in SamplingAcks : ss_ack' = ack /\ ss_out' = SetSampling(ack)
       \/ \E ack \in SamplingErrors : ss_ack' = ack /\ ss_out' = SetSampling(ack)
    /\ ss_pc' = "returned"
    /\ UNCHANGED <<client, inbox, tasks, slots, posts, wire, w_pc, w_task, seq_num,
                   frame, n_dequeued, c_pc, c_task, h_pc, h_task,
                   tick_due, at_drop, elapsed, hs_vars, ss_start, ss_cmd, c_ret,
                   wf_vars, cx_vars, pc_vars>>

NextSampling == SetSamplingCall \/ SetSamplingReturn

\* One call of set_sampling on a fresh client, for every argument and every
\* result of send_command.
SpecSampling == Init /\ [][NextSampling]_vars

\* ----------------------------------------------------------- properties
TaskIds == 1..Len(tasks)

\* The frames the worker put on the wire, in order.
Sends == SelectSeq(wire, LAMBDA e : e.ev = "send")

WasSent(k) == \E i \in 1..Len(wire) : wire[i].ev = "send" /\ wire[i].id = k

PostCount(k) == Cardinality({i \in 1..Len(posts) : posts[i].id = k})

\* The worker has left the loop iteration of task k.
Served(k) == k < w_task \/ (k = w_task /\ w_pc \in {"idle", "exited"})

\* Requests sent whose result has not been posted.
InFlight == {k \in TaskIds : WasSent(k) /\ ~Posted(k)}

\* C1: at every instant at most one request whose frame was sent is still
\* without a posted result, and it is the task the worker holds: the frame
\* of a later task is never sent before the result of the earlier one is posted.
C1_OneInFlight ==
    /\ Cardinality(InFlight) <= 1
    /\ \A k \in InFlight : k = w_task
    /\ \A i \in 1..Len(wire) :
          wire[i].ev = "send" =>
            \A j \in 1..(i - 1) : wire[j].ev = "send" => Posted(wire[j].id)

\* C1 witness: two producers have a task accepted each; the frame of the
\* first is on the wire awaiting its reply, the second waits in the inbox.
C1_Witness ==
    /\ Len(tasks) = 2
    /\ tasks[1].owner # tasks[2].owner
    /\ w_pc = "recv"
    /\ inbox = <<2>>
    /\ InFlight = {1}

\* C2: the i-th result posted belongs to the i-th task accepted by the inbox.
C2_FifoCompletion == \A i \in 1..Len(posts) : posts[i].id = i

\* C2 witness: the heartbeat task and a caller had a task accepted each, in
\* that order, and both results are posted.
C2_Witness ==
    /\ Len(posts) = 2
    /\ tasks[1].owner = "heartbeat"
    /\ tasks[2].owner = "c1"
    /\ posts[1].id = 1
    /\ posts[2].id = 2

\* C3: a completion slot is written at most once, the caller takes at most
\* one value from it, exactly the one written; and when the worker has left
\* the loop iteration of a task (every request got its reply), its slot was
\* written exactly once.
C3_ExactlyOneResult ==
    \A k \in TaskIds :
        /\ PostCount(k) <= 1
        /\ Len(slots[k].got) <= 1
        /\ Served(k) => PostCount(k) = 1
        /\ (slots[k].rx = "done" /\ Posted(k)) => slots[k].got = <<PostOf(k).result>>

\* C3 witness: both callers submitted concurrently, the sensor replied to
\* both, and each caller has received its one result.
C3_Witness ==
    /\ Len(tasks) = 2
    /\ {tasks[1].owner, tasks[2].owner} = Callers
    /\ \A k \in {1, 2} :
          /\ slots[k].rx = "done"
          /\ PostCount(k) = 1
          /\ slots[k].got[1].kind = "Ok"

\* C4 as stated: the seq_nums of the frames sent are strictly increasing
\* over any number of requests.
C4_StrictlyIncreasing ==
    \A i, j \in 1..Len(Sends) : i < j => Sends[i].seq_num < Sends[j].seq_num

\* C4 amended: the seq_nums of the frames of the first 65535 tasks the worker
\* dequeues (until the u16 counter wraps) are strictly increasing and larger
\* than the handshake frame's, for any interleaving of callers.
C4_IncreasingUntilWrap ==
    \A j \in 1..Len(Sends) :
        Sends[j].nth < SeqModulus =>
            /\ Sends[j].seq_num > HandshakeSeq
            /\ \A i \in 1..(j - 1) : Sends[i].seq_num < Sends[j].seq_num

\* C4 witness: the frames of two tasks of different producers were sent, the
\* second with the larger seq_num.
C4_Witness ==
    /\ Len(Sends) = 2
    /\ tasks[Sends[1].id].owner # tasks[Sends[2].id].owner
    /\ Sends[2].nth < SeqModulus
    /\ Sends[1].seq_num < Sends[2].seq_num

\* The task whose frame precedes the datagram logged at position i.
TaskOfRecv(i) == wire[i - 1].id

RecvEvents == {i \in 1..Len(wire) : wire[i].ev = "recv"}

\* C5: the worker never aborts; whatever datagram it receives, a result is
\* posted to the waiting caller's slot.
C5_NeverAborts ==
    /\ w_pc # "panicked"
    /\ \A i \in RecvEvents : Posted(TaskOfRecv(i))

IoReason(ev) ==
    IF ev = "send_fail" THEN "While sending command" ELSE "While receiving command"

\* The worker is where the loop continues: awaiting or holding a later task,
\* or gone because every sender was dropped.
WorkerContinues(k) ==
    \/ w_pc = "idle"
    \/ w_task # k /\ w_pc # "exited"
    \/ w_pc = "exited" /\ AllSendersDropped

\* C6: a failed send or receive for task k posts IoError with the reason of
\* the failed operation to k's slot, k's caller receives it, and the worker
\* continues with the loop.
C6_IoErrorContinues ==
    \A i \in 1..Len(wire) :
        wire[i].ev \in {"send_fail", "recv_fail"} =>
            LET k == wire[i].id
            IN /\ Posted(k)
               /\ PostOf(k).result = IoError(IoReason(wire[i].ev))
               /\ slots[k].rx = "done" => slots[k].got = <<IoError(IoReason(wire[i].ev))>>
               /\ i = Len(wire) => WorkerContinues(k)

\* C6 witness: the receive of task 1 failed, its caller got the IoError, and
\* task 2 was then served with a response.
C6_Witness ==
    /\ Len(posts) = 2
    /\ \E i \in 1..Len(wire) : wire[i].ev = "recv_fail" /\ wire[i].id = 1
    /\ slots[1].got = <<IoError("While receiving command")>>
    /\ posts[2].id = 2
    /\ posts[2].result.kind = "Ok"

\* C7: a post that finds the receiver of the slot dropped leaves the worker
\* in its loop.
C7_AbandonedSlotContinues ==
    \A i \in 1..Len(posts) :
        (~posts[i].delivered /\ i = Len(posts)) => WorkerContinues(posts[i].id)

\* C7 witness: the caller of task 1 abandoned it, the post for task 1 failed,
\* and task 2 was served and its result delivered.
C7_Witness ==
    /\ Len(posts) = 2
    /\ slots[1].rx = "dropped"
    /\ ~posts[1].delivered
    /\ posts[2].id = 2
    /\ posts[2].delivered
    /\ posts[2].result.kind = "Ok"

\* C8: the result posted for task k is the one the datagram logged right
\* after k's frame yields (or the failure of that receive), whatever seq_num
\* the datagram carries.
C8_PositionalMatch ==
    \A i \in 1..Len(wire) :
        (wire[i].ev = "send" /\ Posted(wire[i].id)) =>
            /\ i < Len(wire)
            /\ wire[i + 1].ev \in {"recv", "recv_fail"}
            /\ wire[i + 1].ev = "recv" =>
                  LET p == parse(wire[i + 1].dgram)
                      r == PostOf(wire[i].id).result
                  IN /\ p.tag \in {"Ok", "Err"}
                     /\ p.tag = "Err" => r = ParseError(p.err)
                     /\ (p.tag = "Ok" /\ p.cmd_type = "Response") => r = Ok(p.data)
                     /\ (p.tag = "Ok" /\ p.cmd_type # "Response") => r.kind = "BadResponse"

\* C8 witness: a caller received Ok from a datagram whose seq_num is not the
\* seq_num of its request frame.
C8_Witness ==
    \E i \in 1..Len(wire) :
        /\ wire[i].ev = "send"
        /\ i < Len(wire)
        /\ wire[i + 1].ev = "recv"
        /\ wire[i + 1].seq_num # wire[i].seq_num
        /\ parse(wire[i + 1].dgram).tag = "Ok"
        /\ slots[wire[i].id].rx = "done"
        /\ slots[wire[i].id].got = <<Ok(parse(wire[i + 1].dgram).data)>>

\* C9: the caller gets Ok(body) exactly when the datagram received for its
\* request parses as a Response frame, body being the decoded payload; when
\* the datagram does not parse, the caller gets ParseError with the codec's error.
C9_OkIffResponse ==
    \A i \in RecvEvents :
        LET k == TaskOfRecv(i)
            p == parse(wire[i].dgram)
        IN /\ (p.tag = "Ok" /\ p.cmd_type = "Response") <=>
                (Posted(k) /\ PostOf(k).result.kind = "Ok")
           /\ (p.tag = "Ok" /\ p.cmd_type = "Response") => PostOf(k).result = Ok(p.data)
           /\ p.tag # "Ok" => (Posted(k) /\ PostOf(k).result.kind = "ParseError")
           /\ p.tag = "Err" => PostOf(k).result = ParseError(p.err)

\* C10: when the datagram received for a request parses as a frame that is
\* not a Response, the caller gets BadResponse carrying the decoded payload
\* of the received frame.
C10_BadResponseCarriesReceived ==
    \A i \in RecvEvents :
        LET k == TaskOfRecv(i)
            p == parse(wire[i].dgram)
        IN (p.tag = "Ok" /\ p.cmd_type # "Response") =>
               (Posted(k) /\ PostOf(k).result = BadResponse(p.data))

\* The heartbeat requests whose result the heartbeat task has taken.
HeartbeatResults ==
    {k \in TaskIds : tasks[k].owner = "heartbeat" /\ slots[k].rx = "done"}

\* C11: whatever a heartbeat command yields (an Ok other than
\* Heartbeat{ret_code=0}, or an error result), the heartbeat task keeps
\* running: it is back in its loop after every result, and it ends only
\* through the cancel signal.
C11_HeartbeatKeepsRunning ==
    /\ h_pc # "panicked"
    /\ h_pc = "exited" => client = "dropped"
    /\ \A k \in HeartbeatResults :
          (k = h_task /\ client = "alive") => h_pc \in {"select", "waiting"}

InInbox(k) == \E i \in 1..Len(inbox) : inbox[i] = k

\* The worker handed the frame of task k to command_socket.send.
SendTried(k) ==
    \E i \in 1..Len(wire) : wire[i].ev \in {"send", "send_fail"} /\ wire[i].id = k

\* C14: the drop of the client discards no accepted task: a task without a
\* result at the drop stays queued or held until its result is posted, and
\* when the worker has left its loop every such task was dequeued, handed to
\* the socket and completed.
C14_DrainBeforeExit ==
    /\ w_pc # "panicked" =>
          \A k \in at_drop : InInbox(k) \/ (k = w_task /\ ~InInbox(k)) \/ Posted(k)
    /\ w_pc = "exited" =>
          \A k \in at_drop : k <= n_dequeued /\ SendTried(k) /\ PostCount(k) = 1

\* C14 witness: two tasks had no result when the client was dropped, one of
\* them still queued; the worker served both and then left its loop.
C14_Witness ==
    /\ Cardinality(at_drop) = 2
    /\ w_pc = "exited"
    /\ \A k \in at_drop : Posted(k)

ChannelClosed == {AsyncChannelError.kind, AsyncCallbackError.kind}

\* C15 as stated: a request without a result at the drop of the client
\* completes with a channel-closed error, never with a response.
C15_ChannelClosedError ==
    \A k \in at_drop :
        slots[k].rx = "done" => slots[k].got[1].kind \in ChannelClosed

\* C15 amended: a request without a result at the drop is still served: its
\* slot yields what the worker posted for it (the outcome of the exchange
\* with the sensor), and yields AsyncCallbackError only when the worker
\* panicked before posting.
C15_ServedAfterDrop ==
    \A k \in at_drop :
        slots[k].rx = "done" =>
            IF Posted(k)
            THEN /\ slots[k].got = <<PostOf(k).result>>
                 /\ PostOf(k).result.kind \notin ChannelClosed
            ELSE /\ w_pc = "panicked"
                 /\ slots[k].got = <<AsyncCallbackError>>

\* C15 witness: the heartbeat's request had no result when the client was
\* dropped, and the heartbeat task then received the sensor's response.
C15_Witness ==
    \E k \in at_drop :
        /\ tasks[k].owner = "heartbeat"
        /\ slots[k].rx = "done"
        /\ slots[k].got[1].kind = "Ok"

\* The requests the heartbeat task submitted.
HeartbeatTasks == {k \in TaskIds : tasks[k].owner = "heartbeat"}

\* The cancel signal has fired and the heartbeat task waits in select! for a
\* tick that is not ready.
CancelledWhileWaiting == h_pc = "select" /\ client = "dropped" /\ ~tick_due

\* C16: when the cancel signal has fired while the heartbeat task waits for
\* its next tick, the step the task takes is the exit from its loop, no
\* request is submitted by it, and an exited task never submits again.
C16_CancelExits ==
    [][/\ (CancelledWhileWaiting /\ h_pc' # h_pc) =>
              (h_pc' = "exited" /\ tasks' = tasks /\ inbox' = inbox)
       /\ h_pc = "exited" =>
              (h_pc' = "exited" /\ Len(tasks') = Len(tasks))]_vars

\* C16 witness: the heartbeat task had submitted a heartbeat and got its
\* reply; it was cancelled with no tick ready and has left its loop.
C16_Witness ==
    /\ h_pc = "exited"
    /\ ~tick_due
    /\ Cardinality(HeartbeatTasks) = 1
    /\ \A k \in HeartbeatTasks : slots[k].rx = "done"

\* The heartbeat task takes a tick of its interval in select!.
TickTaken == h_pc = "select" /\ tick_due /\ ~tick_due'

\* Ticks of an interval of HEARTBEAT_PERIOD ms that fall within ms
\* milliseconds of its creation, the immediate first one not counted.
TicksWithin(ms) == ms \div HEARTBEAT_PERIOD

HandshakeAck(d) ==
    /\ parse(d).tag = "Ok"
    /\ parse(d).cmd_type = "Response"
    /\ parse(d).data = [cmd_set |-> 0, cmd_id |-> 1, arg |-> 0]

NothingSpawned ==
    /\ client = "none"
    /\ w_pc = "none"
    /\ h_pc = "none"
    /\ tasks = <<>>

\* C18: the client, the worker and the heartbeat task exist only once
\* handshake has received a Response frame Handshake{ret_code=0}; before the
\* reply, and when handshake ends in an error or aborts, nothing is started.
C18_SpawnOnlyAfterAck ==
    /\ ~NothingSpawned =>
          (hs_pc = "returned" /\ hs_result.kind = "Ok" /\ HandshakeAck(hs_reply))
    /\ hs_pc \in {"bind", "send", "recv", "panicked"} => NothingSpawned
    /\ (hs_pc = "returned" /\ hs_result.kind # "Ok") => NothingSpawned

\* C18 witness: handshake on the second device record received the ack, and
\* the worker and the heartbeat task it spawned are serving a heartbeat.
C18_Witness ==
    /\ lidar = "lidar_b"
    /\ HandshakeAck(hs_reply)
    /\ w_pc = "recv"
    /\ h_pc = "waiting"

ReplyReceived == hs_pc \in {"returned", "panicked"} /\ hs_reply # NoDatagram

\* C19 as stated: every reply other than a Response frame
\* Handshake{ret_code=0}, a datagram that does not parse included, makes
\* handshake return HandshakeFailed with the device record it was given.
C19_AnyOtherReplyFails ==
    (ReplyReceived /\ ~HandshakeAck(hs_reply)) =>
        (hs_pc = "returned" /\ hs_result = HandshakeFailed(lidar))

\* C19 amended: a reply that parses and is not a Response frame
\* Handshake{ret_code=0} makes handshake return HandshakeFailed with the
\* device record it was given; a reply the codec rejects makes it return
\* ParseError with the codec's error; a reply on which the codec panics
\* aborts handshake without a result.
C19_FailedOrParseError ==
    (ReplyReceived /\ ~HandshakeAck(hs_reply)) =>
        LET p == parse(hs_reply)
        IN /\ p.tag = "Ok" => (hs_pc = "returned" /\ hs_result = HandshakeFailed(lidar))
           /\ p.tag = "Err" => (hs_pc = "returned" /\ hs_result = ParseError(p.err))
           /\ p.tag = "Panic" => (hs_pc = "panicked" /\ hs_result = NoResult)

\* C19 witness: the sensor refused the handshake of the second device record
\* with ret_code 1 and handshake returned that record in HandshakeFailed.
C19_Witness ==
    /\ hs_pc = "returned"
    /\ hs_reply = RespHandshakeRefused
    /\ lidar = "lidar_b"
    /\ hs_result = HandshakeFailed("lidar_b")

\* The response StartStopSampling{ret_code = r}.
SamplingResponse(r) == [cmd_set |-> 0, cmd_id |-> 4, arg |-> r]

\* C20: set_sampling(start) submits one StartStopSampling request whose
\* sample_ctrl is 1 for start = TRUE and 0 otherwise; it returns success
\* exactly when the response is StartStopSampling{ret_code=0}, and
\* AckFailed(ret_code) for StartStopSampling with a non-zero ret_code.
C20_SetSampling ==
    /\ ss_pc \in {"called", "returned"} =>
          /\ Len(tasks) = 1
          /\ tasks[1].command.cmd_set = 0
          /\ tasks[1].command.cmd_id = 4
          /\ tasks[1].command.arg = (IF ss_start THEN 1 ELSE 0)
    /\ ss_pc = "returned" =>
          /\ ss_out.kind = "Ok" <=>
                (ss_ack.kind = "Ok" /\ ss_ack.data = SamplingResponse(0))
          /\ \A r \in RetCodes \ {0} :
                (ss_ack.kind = "Ok" /\ ss_ack.data = SamplingResponse(r)) =>
                    ss_out = AckFailed(r)

\* C20 witness: set_sampling(true) got StartStopSampling{ret_code=2} and
\* returned AckFailed(2).
C20_Witness ==
    /\ ss_pc = "returned"
    /\ ss_start
    /\ ss_ack.kind = "Ok"
    /\ ss_ack.data = SamplingResponse(2)
    /\ ss_out = AckFailed(2)

\* C21: when the response to set_sampling is any variant other than General
\* StartStopSampling (another General command, or a response of the LiDAR
\* set such as SetMode), set_sampling returns AckWrong carrying the response
\* that was received.
C21_AckWrongCarriesResponse ==
    (/\ ss_pc = "returned"
     /\ ss_ack.kind = "Ok"
     /\ \/ ss_ack.data.cmd_set # 0
        \/ ss_ack.data.cmd_id # StartStopSampling(0).cmd_id)
    => ss_out = AckWrong(ss_ack.data)

\* C21 witness: the response was SetMode{ret_code=0} of the LiDAR set, and
\* set_sampling returned AckWrong of exactly that response.
C21_Witness ==
    /\ ss_pc = "returned"
    /\ ss_ack.kind = "Ok"
    /\ ss_ack.data = [cmd_set |-> 1, cmd_id |-> 0, arg |-> 0]
    /\ ss_out = AckWrong([cmd_set |-> 1, cmd_id |-> 0, arg |-> 0])

\* C22: send_command never blocks forever because of a shut-down
\* multiplexer.  A call made while the worker has terminated returns
\* AsyncChannelError at once (no task is queued, the caller does not wait); a
\* caller waiting on a completion slot whose sender is gone without a result
\* can always return, and what it returns is AsyncCallbackError.
C22_NoBlockOnShutDown ==
    /\ [](\A c \in Callers :
            (c_pc[c] = "waiting" /\ WorkerDead) => ENABLED CallerReceive(c))
    /\ [][\A c \in Callers :
            /\ (/\ WorkerDead
                /\ c_pc[c] = "ready"
                /\ <<c_pc[c], c_ret[c]>>' # <<c_pc[c], c_ret[c]>>)
               => (/\ c_pc'[c] = "ready"
                   /\ c_ret'[c] = AsyncChannelError
                   /\ tasks' = tasks)
            /\ (/\ c_pc[c] = "waiting"
                /\ c_pc'[c] = "ready"
                /\ slots'[c_task[c]].rx = "done"
                /\ ~Posted(c_task[c]))
               => c_ret'[c] = AsyncCallbackError]_vars

\* C22 witness: the worker is gone while the client lives; one caller's
\* queued task lost its slot and the call returned AsyncCallbackError, the
\* other caller called afterwards and got AsyncChannelError.
C22_Witness ==
    /\ client = "alive"
    /\ WorkerDead
    /\ c_ret["c1"] = AsyncChannelError
    /\ c_ret["c2"] = AsyncCallbackError
    /\ c_task["c2"] > 0
    /\ ~Posted(c_task["c2"])

\* C23: the inbox never holds more than 128 pending tasks.  A call that
\* finds it full is suspended with its task, leaves the suspension only when
\* the inbox has room again (the task is then queued at the back) or when the
\* worker is gone; every task leaves the inbox only by being dequeued by the
\* worker, so none is dropped or rejected because the inbox is full.
C23_BoundedNoLoss ==
    /\ [](Len(inbox) <= InboxCapacity)
    /\ [][\A c \in Callers :
            /\ (/\ c_pc[c] = "ready"
                /\ c_pc'[c] # "ready"
                /\ Len(inbox) >= InboxCapacity)
               => (c_pc'[c] = "sending" /\ inbox' = inbox)
            /\ (c_pc[c] = "sending" /\ c_pc'[c] # "sending")
               => \/ /\ Len(inbox) < InboxCapacity
                     /\ c_pc'[c] = "waiting"
                     /\ inbox' = Append(inbox, c_task'[c])
                     /\ tasks'[c_task'[c]] = [command |-> CallerCommand(c), owner |-> c]
                  \/ /\ WorkerDead
                     /\ c_ret'[c] = AsyncChannelError]_vars
    /\ [][\A i \in 1..Len(inbox) :
            \/ \E j \in 1..Len(inbox') : inbox'[j] = inbox[i]
            \/ (i = 1 /\ w_task' = inbox[i] /\ n_dequeued' = n_dequeued + 1)
            \/ w_pc' = "panicked"]_vars

\* C23 witness: the inbox holds 128 tasks, the last of them c1's, and c2's
\* call is suspended in its send while the worker is alive.
C23_Witness ==
    /\ Len(inbox) = InboxCapacity
    /\ c_pc["c1"] = "waiting"
    /\ inbox[InboxCapacity] = c_task["c1"]
    /\ c_pc["c2"] = "sending"
    /\ ~WorkerDead

C25_RoundTrip ==
    /\ (cx_pc = "panicked" /\ cx_frame # NoFrame) => cx_bytes # <<>>
    /\ (cx_pc \in {"parsed", "panicked"} /\ cx_frame # NoFrame /\ cx_pos = 0) =>
          (cx_out.tag = "Ok" /\ cx_out.frame = cx_frame)

\* C26 as stated: changing one byte of a valid serialized frame makes parse
\* fail with InvalidCrc16 when the byte is in the header region (frame[0..9])
\* and with InvalidCrc32 otherwise.
C26_CrcOnAnyByte ==
    (cx_pc \in {"parsed", "panicked"} /\ cx_pos > 0) =>
        cx_out = ParseErr(IF cx_pos <= HeaderLen THEN "InvalidCrc16"
                          ELSE "InvalidCrc32")

\* C26, amended: changing one byte of a valid serialized frame makes parse
\* fail with InvalidSOF for byte 0, with InvalidCrc16 for bytes 1 to 8 and
\* with InvalidCrc32 for every later byte of the frame.
C26_ByteChangeDetected ==
    (cx_pc \in {"parsed", "panicked"} /\ cx_pos > 0) =>
        cx_out = ParseErr(IF cx_pos = 1 THEN "InvalidSOF"
                          ELSE IF cx_pos <= HeaderLen THEN "InvalidCrc16"
                          ELSE "InvalidCrc32")

\* C26 witness: byte 10 of a serialized Handshake request was changed and
\* parse returned InvalidCrc32.
C26_Witness ==
    /\ cx_pc = "parsed"
    /\ cx_pos = 11
    /\ cx_frame.data.kind = "Request"
    /\ cx_frame.data.cmd_set = 0
    /\ cx_frame.data.cmd_id = 1
    /\ cx_bytes # serialize(cx_frame).bytes
    /\ cx_out = ParseErr("InvalidCrc32")

\* C27: for every byte sequence whose first byte is not 0xAA, parse returns
\* InvalidSOF, however short the sequence is and whatever its length field
\* and checksums are.
C27_InvalidSOF ==
    (cx_pc \in {"parsed", "panicked"} /\ cx_bytes # <<>> /\ cx_bytes[1] # SOF) =>
        cx_out = ParseErr("InvalidSOF")

\* C27 witness: a datagram of the single byte 0x55 was parsed and the result
\* is InvalidSOF.
C27_Witness ==
    /\ cx_pc = "parsed"
    /\ cx_bytes = <<85>>
    /\ cx_out = ParseErr("InvalidSOF")

\* C28: a point-cloud datagram whose data_type is 0x02 or 0x03 parses
\* successfully exactly when the bytes after the header are 96 point records;
\* with any other content, a trailing partial record included,
\* PointCloudFrame::parse returns Err(WrongPointCloudSize).
C28_ExactlyNinetySix ==
    (pc_pc = "parsed" /\ Len(pc_dgram) >= 10 /\ pc_dgram[10] \in {2, 3}) =>
        IF Len(pc_dgram) = PointHeaderLen + PointsPerFrame * PointByteLen(pc_dgram[10])
        THEN pc_frame.tag = "Ok"
        ELSE pc_frame = ParseErr("WrongPointCloudSize")

\* The stream has just yielded the matrix of the DT2 datagram whose 96
\* records carry the coordinates of the given pattern.
YieldedMatrixOf(pattern) ==
    /\ pc_pc = "recv"
    /\ pc_items # <<>>
    /\ pc_dgram = PointDatagram(2, pattern, PointsPerFrame, 0)

\* C29 as claimed: for a DT2 datagram with 96 records, column k of the
\* homogeneous matrix is (x_k, y_k, z_k, 1), the signed 32-bit coordinates of
\* record k.
C29_ColumnsAreCoordinates ==
    \A pattern \in {"ramp", "wide"} :
        YieldedMatrixOf(pattern) =>
            LET item == pc_items[Len(pc_items)]
            IN /\ item.kind = "Ok"
               /\ \A k \in 1..PointsPerFrame :
                      item.data.matrix[k] = Coordinates(pattern, k - 1) \o <<1>>

\* C29 amended: column k is (x_k, y_k, z_k, 1) with every coordinate cast to
\* f32: equal to the coordinate when its magnitude is at most 2^24, and within
\* a relative error of 2^-24 of it otherwise.
C29_ColumnsAreCastCoordinates ==
    \A pattern \in {"ramp", "wide"} :
        YieldedMatrixOf(pattern) =>
            LET item == pc_items[Len(pc_items)]
                Abs(v) == IF v < 0 THEN 0 - v ELSE v
            IN /\ item.kind = "Ok"
               /\ \A k \in 1..PointsPerFrame :
                      LET col == item.data.matrix[k]
                          c == Coordinates(pattern, k - 1)
                      IN /\ Len(col) = 4
                         /\ col[4] = 1
                         /\ \A i \in 1..3 :
                                /\ Abs(c[i]) <= 2 ^ F32Mantissa => col[i] = c[i]
                                /\ Abs(col[i] - c[i]) * (2 ^ F32Mantissa) <= Abs(c[i])

\* The stream yielded the matrix of the (k, 2k, 3k) datagram and then the
\* matrix of a datagram whose coordinates an f32 cannot hold exactly.
C29_Witness ==
    /\ YieldedMatrixOf("wide")
    /\ Len(pc_items) = 2
    /\ pc_items[1].data.matrix[96] = <<95, 190, 285, 1>>
    /\ pc_items[2].data.matrix[1] = <<0 - 1, 2 ^ 24, 0 - (2 ^ 30), 1>>

\* The datagram the data socket delivered last is one the matrix parser
\* rejects: its data_type is not 0x02 or it does not hold 96 DT2 records.
BadPointDatagram ==
    /\ pc_pc \in {"recv", "ended", "panicked"}
    /\ Len(pc_dgram) >= 10
    /\ \/ pc_dgram[10] # 2
       \/ Len(pc_dgram) # PointHeaderLen + PointsPerFrame * PointByteLen(2)

\* C30: a datagram on the data socket that fails to parse is yielded by the
\* stream as an error item and does not end or abort the stream: the stream
\* goes on to receive the next datagram.
C30_ParseFailureIsAnItem ==
    BadPointDatagram =>
        /\ pc_pc \in {"recv", "ended"}
        /\ \E i \in 1..Len(pc_items) : pc_items[i].kind = "ParseError"

\* The tasks that wait on the request in flight: the task the worker holds
\* and the tasks queued behind it.
BehindRecv == {w_task} \cup {inbox[i] : i \in 1..Len(inbox)}

\* C31: the multiplexer has no timeout.  While the worker awaits the reply to
\* the frame of task k, every step in which command_socket.recv does not
\* return (nothing is logged on the socket), the passing of a heartbeat
\* period included, leaves the worker waiting on the same task, and neither
\* task k nor any task queued after it, heartbeats included, gets a result.
C31_NoTimeout ==
    [][(w_pc = "recv" /\ wire' = wire) =>
          /\ w_pc' = "recv"
          /\ w_task' = w_task
          /\ \A k \in BehindRecv' : ~Posted(k)'
          /\ BehindRecv \subseteq BehindRecv'
          /\ (h_pc = "waiting" /\ h_task \in BehindRecv) => h_pc' = "waiting"
          /\ \A c \in Callers :
                (c_pc[c] = "waiting" /\ c_task[c] \in BehindRecv) => c_ret'[c] = c_ret[c]]_vars

\* C31 witness: a heartbeat period went by while the worker awaits the reply
\* to a caller's request; the heartbeat queued behind it is still unserved.
C31_Witness ==
    /\ w_pc = "recv"
    /\ elapsed = 1
    /\ tasks[w_task].owner = "c1"
    /\ h_pc = "waiting"
    /\ inbox = <<h_task>>
    /\ posts = <<>>

\* The header checksum stored in a datagram of at least 9 bytes is not the
\* CRC-16 of its first 7 bytes.
Crc16Wrong(f) == <<f[8], f[9]>> # CRC16(SubSeq(f, 1, 7))

\* The frame checksum stored at the end of the declared length is not the
\* CRC-32 of the bytes before it.
Crc32Wrong(f) == SubSeq(f, f[3] - 3, f[3]) # CRC32(SubSeq(f, 1, f[3] - 4))

\* parse was given at least a whole header.
ParsedHeader == cx_pc \in {"parsed", "panicked"} /\ Len(cx_bytes) >= HeaderLen

\* C32: parse reports errors in a fixed precedence: a wrong SOF gives
\* InvalidSOF even if the checksums are wrong; otherwise a wrong header
\* CRC-16 gives InvalidCrc16 even if the frame CRC-32 is wrong too; cmd_type,
\* cmd_set and cmd_id decide the result only when both checksums verify.
C32_ErrorPrecedence ==
    ParsedHeader =>
        LET f == cx_bytes
            lenOk == f[3] >= CrcLen /\ f[3] <= Len(f)
        IN /\ f[1] # SOF => cx_out = ParseErr("InvalidSOF")
           /\ (f[1] = SOF /\ Crc16Wrong(f)) => cx_out = ParseErr("InvalidCrc16")
           /\ (f[1] = SOF /\ ~Crc16Wrong(f) /\ lenOk /\ Crc32Wrong(f)) =>
                  cx_out = ParseErr("InvalidCrc32")
           /\ (cx_out.tag = "Ok" \/ cx_out = ParseErr("InvalidCommandType")) =>
                  f[1] = SOF /\ ~Crc16Wrong(f) /\ lenOk /\ ~Crc32Wrong(f)

\* C32 witness: the cmd_type byte of a valid frame was changed to a value
\* that is no command type, which also breaks both checksums, and parse
\* returned InvalidCrc16.
C32_Witness ==
    /\ ParsedHeader
    /\ cx_pos = 5
    /\ cx_bytes[5] \notin {0, 1, 2}
    /\ Crc16Wrong(cx_bytes)
    /\ Crc32Wrong(cx_bytes)
    /\ cx_out = ParseErr("InvalidCrc16")

\* parse was given a datagram whose SOF, header checksum, declared length
\* and frame checksum are all valid and whose cmd_type is a known one.
ParsedSoundFrame ==
    /\ ParsedHeader
    /\ cx_bytes[1] = SOF
    /\ ~Crc16Wrong(cx_bytes)
    /\ cx_bytes[3] > HeaderLen + CrcLen + 1 /\ cx_bytes[3] <= Len(cx_bytes)
    /\ ~Crc32Wrong(cx_bytes)
    /\ cx_bytes[5] \in {0, 1, 2}

\* C33: for a frame whose SOF and both checksums are valid, parse returns
\* Err(InvalidCommandType) for every cmd_set byte that is no known command
\* set and Err(InvalidData) for every cmd_id byte that is not in the variant
\* catalogue of its set.
C33_UnknownSetAndId ==
    ParsedSoundFrame =>
        /\ cx_bytes[10] \notin {0, 1, 2} => cx_out = ParseErr("InvalidCommandType")
        /\ (cx_bytes[10] \in {0, 1} /\ cx_bytes[11] > MaxCmdId) =>
               cx_out = ParseErr("InvalidData")

\* C34: for every input whose declared length (frame[2]) is shorter than 13
\* or whose byte count is smaller than its declared length, parse returns an
\* error value: no frame, and no out-of-bounds access.
C34_ShortIsError ==
    (/\ cx_pc \in {"parsed", "panicked"}
     /\ Len(cx_bytes) >= 3
     /\ (cx_bytes[3] < HeaderLen + CrcLen \/ Len(cx_bytes) < cx_bytes[3])) =>
        cx_out.tag = "Err"

\* C35: seq_num wraps freely: the task dequeued after the one framed with
\* seq_num 65535 is framed with seq_num 0, as every later task is framed with
\* its number modulo 2^16, and the worker does not end on the wrap.
C35_WrapsFreely ==
    n_dequeued >= SeqModulus =>
        /\ frame.seq_num = n_dequeued % SeqModulus
        /\ (w_pc = "panicked" => \E i \in 1..Len(wire) : wire[i].nth = n_dequeued)

\* C36: seq_num is incremented exactly once per dequeued task, before the
\* send and whatever becomes of the send, the receive and the parse; so,
\* before any wrap, the k-th dequeued task (k >= 1) is framed with seq_num k,
\* and no frame of the multiplexer carries the handshake frame's seq_num 0.
C36_SeqCountsDequeues ==
    n_dequeued < SeqModulus =>
        /\ seq_num = n_dequeued
        /\ w_pc \in {"send", "recv"} => frame.seq_num = n_dequeued
        /\ \A i \in 1..Len(wire) :
               wire[i].ev \in {"send", "send_fail"} =>
                   /\ wire[i].seq_num = wire[i].nth
                   /\ wire[i].nth >= 1
                   /\ wire[i].seq_num # HandshakeSeq

\* C36 witness: the exchange of the first task failed (send error, receive
\* error or parse error) and the frame of the second task was sent with
\* seq_num 2.
C36_Witness ==
    /\ Len(posts) >= 1
    /\ posts[1].result.kind \in {"IoError", "ParseError"}
    /\ \E i \in 1..Len(wire) :
           wire[i].ev = "send" /\ wire[i].nth = 2 /\ wire[i].seq_num = 2

\* C37: the worker cannot leave its loop while the heartbeat task is alive:
\* in every run the step in which the worker exits is taken with the client
\* (and its sender) already dropped and the heartbeat task already ended,
\* and the worker has exited only in such states.
C37_ExitAfterHeartbeat ==
    /\ [][(w_pc # "exited" /\ w_pc' = "exited") =>
              (client = "dropped" /\ HeartbeatDead)]_vars
    /\ [](w_pc = "exited" => (client = "dropped" /\ h_pc \in {"exited", "panicked"}))

\* C37 witness: the client was dropped while the heartbeat task awaited its
\* request; the worker served that request, the heartbeat task ended on it,
\* and only then the worker left its loop.
C37_Witness ==
    /\ w_pc = "exited"
    /\ h_pc = "panicked"
    /\ h_task \in at_drop
    /\ Posted(h_task)

\* The heartbeat requests whose result has not been delivered to the
\* heartbeat task.
HeartbeatsOutstanding ==
    {k \in 1..Len(tasks) : tasks[k].owner = "heartbeat" /\ slots[k].rx # "done"}

\* C38: at most one heartbeat request is outstanding at any time, and it is
\* the one the heartbeat task awaits: whenever the task is at its select!,
\* where it takes a tick or sees the cancel signal, or has ended, the result
\* of every heartbeat it submitted has been delivered to it.
C38_OneHeartbeatOutstanding ==
    /\ \A j, k \in HeartbeatsOutstanding : j = k
    /\ h_pc = "waiting" => HeartbeatsOutstanding = {h_task}
    /\ h_pc # "waiting" => HeartbeatsOutstanding = {}

\* C38 witness: the result of the first heartbeat was delivered and the
\* second heartbeat is outstanding, the client having been dropped meanwhile.
C38_Witness ==
    /\ Len(tasks) = 2
    /\ tasks[1].owner = "heartbeat" /\ tasks[2].owner = "heartbeat"
    /\ slots[1].rx = "done"
    /\ HeartbeatsOutstanding = {2}
    /\ client = "dropped"

\* The caller of task k dropped its call before it took a result.
Cancelled(k) == slots[k].rx = "dropped"

\* C39: a task accepted into the inbox is not withdrawn when its caller is
\* cancelled.  The step that cancels leaves the inbox as it is; the worker
\* still sends (or tries to send) the frame of a cancelled task; and a
\* datagram is consumed in the step that receives it, for the task whose
\* frame the worker sent last, cancelled or not, so it never is the result
\* of a later task.
C39_CancelledNotWithdrawn ==
    /\ [][\A c \in Callers :
             (c_pc[c] = "waiting" /\ c_pc'[c] = "ready" /\ Cancelled(c_task[c])') =>
                 (inbox' = inbox /\ tasks' = tasks)]_vars
    /\ [](\A k \in TaskIds :
             (Cancelled(k) /\ Served(k)) =>
                 \E i \in 1..Len(wire) :
                     wire[i].id = k /\ wire[i].ev \in {"send", "send_fail"})
    /\ [][posts' # posts =>
             /\ Len(posts') = Len(posts) + 1
             /\ Len(wire') = Len(wire) + 1
             /\ LET post == posts'[Len(posts')]
                    ev == wire'[Len(wire')]
                IN /\ post.id = w_task
                   /\ ev.ev \in {"recv", "recv_fail", "send_fail"}
                   /\ ev.ev = "recv" =>
                          /\ wire[Len(wire)].ev = "send"
                          /\ wire[Len(wire)].id = w_task
                          /\ post.result = ResultOf(frame, ev.dgram)]_vars

\* C39 witness: the caller of task 1 was cancelled; the worker sent the frame
\* of task 1 all the same and its post of the first datagram found no
\* receiver; the caller of task 2 got the result of the second datagram,
\* which differs from what the first one yields.
C39_Witness ==
    /\ Len(wire) = 4
    /\ wire[1].ev = "send" /\ wire[1].id = 1
    /\ wire[2].ev = "recv"
    /\ wire[3].ev = "send" /\ wire[3].id = 2
    /\ wire[4].ev = "recv"
    /\ Cancelled(1)
    /\ Len(posts) = 2
    /\ ~posts[1].delivered
    /\ posts[1].result.kind = "Ok"
    /\ slots[2].rx = "done"
    /\ slots[2].got = <<ParseError("InvalidSOF")>>

====
